---- MODULE Spec2Model ----
(***************************************************************************)
(* CircularList<T> (src/CircularList.h): a circular doubly linked list.    *)
(* The heap of Node objects is modelled explicitly: a node is an address,  *)
(* its fields are data[n], next[n], prev[n]; a list object is head[l] and  *)
(* count[l].  Address Null (0) is the null pointer.                        *)
(***************************************************************************)
EXTENDS Integers, Sequences, FiniteSets, TLC

\* ------------------------------------------------------------------ bounds
MaxNodes == 4          \* number of node addresses of the heap
MaxLive == 3           \* most nodes alive at once in Spec, SpecOne and SpecIter
MaxCopyLen == 2        \* longest list built in SpecCopy and SpecCmp
MaxLen == 3            \* longest list built in the single-list specifications
MaxOps == 6            \* pushes + successful pops counted in SpecDeque
MaxFail == 1           \* latest allocation made to fail in a loop of allocations
MaxAssign == 2         \* largest n given to assign
MaxIterLen == 2        \* longest list built while the client holds an iterator
MaxRevLen == 3         \* longest list built in SpecRev

Null == 0
Addr == 1..MaxNodes
Ptr == 0..MaxNodes
Values == {1, 2}       \* element values (T = int in the tests)
Lists == {"a", "b"}    \* the list objects of the client program
Tmp == "tmp"           \* the local `temp` of copy assignment
AllLists == Lists \cup {Tmp}

VARIABLES
    data,        \* Node::data   of every address (0 when the address holds no node)
    next,        \* Node::next
    prev,        \* Node::prev
    allocated,   \* addresses that hold a constructed, not yet deleted Node
    head,        \* CircularList::head  of every list object
    count,       \* CircularList::count of every list object
    alive,       \* list objects that are constructed and not yet destroyed
    res,         \* what the last operation did: its name, list, exception, results
    it,          \* an iterator object kept by the client: [node, head]
    itv,         \* history of `it`: how it was obtained, what happened since
    ref,         \* reference sequence of the values, kept beside list "a"
    pushes,      \* number of pushes done
    pops         \* number of successful pops done

vars == <<data, next, prev, allocated, head, count, alive, res, it, itv,
          ref, pushes, pops>>

\* --------------------------------------------------------------- iterators
\* iterator(Node* n = nullptr, Node* h = nullptr)
iterator(n, h) == [node |-> n, head |-> h]
NoIt == iterator(Null, Null)

\* ------------------------------------------------------------------- store
\* The part of the state the member functions work on, with the exception in
\* flight (exc), the iterator returned (ret), the element returned (val) and
\* the number of `new Node` that still succeed before one throws
\* std::bad_alloc (budget).  at is the address the allocator returns next,
\* when it is free; Null stands for the lowest free address.
St(budget) ==
    [data |-> data, next |-> next, prev |-> prev, allocated |-> allocated,
     head |-> head, count |-> count, exc |-> "none", ret |-> NoIt,
     val |-> 0, budget |-> budget, at |-> Null]

StAt(budget, a) == [St(budget) EXCEPT !.at = a]

NoFail == MaxNodes + 1

\* Addresses `new` may return: every unused one, also one whose node was
\* deleted while the client's iterator still points to it.
FreeAddrs(S) == Addr \ S.allocated

\* The address `new` returns: the one the allocator has chosen (S.at), or the
\* lowest unused one.
FreshAddr(S) ==
    IF S.at \in FreeAddrs(S) THEN S.at
    ELSE CHOOSE n \in FreeAddrs(S) : \A m \in FreeAddrs(S) : n <= m

\* The choices of the allocator that a client can tell apart: each unused
\* address the client's iterator still holds, and one that it does not hold
\* (the lowest).  With no unused address there is nothing to choose.
Places(S) ==
    LET free == FreeAddrs(S)
        held == free \cap {it.node, it.head}
        rest == free \ held
    IN  IF free = {} THEN {Null}
        ELSE held \cup {n \in rest : \A m \in rest : n <= m}

\* new Node(value): data(value), next(this), prev(this)
NewNode(S, n, value) ==
    [S EXCEPT !.data[n] = value, !.next[n] = n, !.prev[n] = n,
              !.allocated = @ \cup {n}, !.budget = @ - 1]

\* delete n: the storage is gone; its old contents are not kept
DeleteNode(S, n) ==
    [S EXCEPT !.data[n] = 0, !.next[n] = Null, !.prev[n] = Null,
              !.allocated = @ \ {n}]

Throw(S, e) == [S EXCEPT !.exc = e]

size(S, l) == S.count[l]

empty(S, l) == S.count[l] = 0

\* push_back with `++count` before `new Node(value)`
push_back_counts_first(S, l, value) ==
    IF S.budget = 0
    THEN Throw([S EXCEPT !.count[l] = @ + 1], "bad_alloc")
    ELSE
      LET node == FreshAddr(S)
          S1 == NewNode(S, node, value)
          h == S1.head[l]
      IN  IF h = Null
          THEN [S1 EXCEPT !.head[l] = node, !.count[l] = @ + 1]
          ELSE LET tail == S1.prev[h]
               IN  [S1 EXCEPT !.next[tail] = node,
                              !.prev[node] = tail,
                              !.next[node] = h,
                              !.prev[h] = node,
                              !.count[l] = @ + 1]

\* push_back without `head->prev = node`
push_back_no_back_link(S, l, value) ==
    IF S.budget = 0 THEN Throw(S, "bad_alloc")
    ELSE
      LET node == FreshAddr(S)
          S1 == NewNode(S, node, value)
          h == S1.head[l]
      IN  IF h = Null
          THEN [S1 EXCEPT !.head[l] = node, !.count[l] = @ + 1]
          ELSE LET tail == S1.prev[h]
               IN  [S1 EXCEPT !.next[tail] = node,
                              !.prev[node] = tail,
                              !.next[node] = h,
                              !.count[l] = @ + 1]

push_back(S, l, value) ==
    IF S.budget = 0 THEN Throw(S, "bad_alloc")
    ELSE
      LET node == FreshAddr(S)
          S1 == NewNode(S, node, value)
          h == S1.head[l]
      IN  IF h = Null
          THEN [S1 EXCEPT !.head[l] = node, !.count[l] = @ + 1]
          ELSE LET tail == S1.prev[h]
               IN  [S1 EXCEPT !.next[tail] = node,
                              !.prev[node] = tail,
                              !.next[node] = h,
                              !.prev[h] = node,
                              !.count[l] = @ + 1]

\* push_front without `head = head->prev`
push_front_keeps_head(S, l, value) == push_back(S, l, value)

push_front(S, l, value) ==
    LET S1 == push_back(S, l, value)
    IN  IF S1.exc # "none" THEN S1
        ELSE [S1 EXCEPT !.head[l] = S1.prev[S1.head[l]]]

\* pop_back without `tail->prev->next = head`
pop_back_no_relink(S, l) ==
    IF empty(S, l) THEN Throw(S, "out_of_range")
    ELSE
      LET h == S.head[l]
          tail == S.prev[h]
      IN  IF tail = h
          THEN [DeleteNode(S, h) EXCEPT !.head[l] = Null, !.count[l] = @ - 1]
          ELSE LET S1 == [S EXCEPT !.prev[h] = S.prev[tail]]
               IN  [DeleteNode(S1, tail) EXCEPT !.count[l] = @ - 1]

\* pop_back without `head->prev = tail->prev`
pop_back_no_back_link(S, l) ==
    IF empty(S, l) THEN Throw(S, "out_of_range")
    ELSE
      LET h == S.head[l]
          tail == S.prev[h]
      IN  IF tail = h
          THEN [DeleteNode(S, h) EXCEPT !.head[l] = Null, !.count[l] = @ - 1]
          ELSE LET S1 == [S EXCEPT !.next[S.prev[tail]] = h]
               IN  [DeleteNode(S1, tail) EXCEPT !.count[l] = @ - 1]

pop_back(S, l) ==
    IF empty(S, l) THEN Throw(S, "out_of_range")
    ELSE
      LET h == S.head[l]
          tail == S.prev[h]
      IN  IF tail = h
          THEN [DeleteNode(S, h) EXCEPT !.head[l] = Null, !.count[l] = @ - 1]
          ELSE LET S1 == [S EXCEPT !.next[S.prev[tail]] = h,
                                   !.prev[h] = S.prev[tail]]
               IN  [DeleteNode(S1, tail) EXCEPT !.count[l] = @ - 1]

\* pop_front without `head->prev->next = head->next`
pop_front_no_relink(S, l) ==
    IF empty(S, l) THEN Throw(S, "out_of_range")
    ELSE
      LET h == S.head[l]
      IN  IF S.next[h] = h
          THEN [DeleteNode(S, h) EXCEPT !.head[l] = Null, !.count[l] = @ - 1]
          ELSE LET S2 == [S EXCEPT !.prev[S.next[h]] = S.prev[h]]
                   S3 == [S2 EXCEPT !.head[l] = S2.next[h]]
               IN  [DeleteNode(S3, h) EXCEPT !.count[l] = @ - 1]

pop_front(S, l) ==
    IF empty(S, l) THEN Throw(S, "out_of_range")
    ELSE
      LET h == S.head[l]
      IN  IF S.next[h] = h
          THEN [DeleteNode(S, h) EXCEPT !.head[l] = Null, !.count[l] = @ - 1]
          ELSE LET S1 == [S EXCEPT !.next[S.prev[h]] = S.next[h]]
                   S2 == [S1 EXCEPT !.prev[S1.next[h]] = S1.prev[h]]
                   S3 == [S2 EXCEPT !.head[l] = S2.next[h]]
               IN  [DeleteNode(S3, h) EXCEPT !.count[l] = @ - 1]

\* insert without `if (cur == head) head = node`
insert_keeps_head(S, l, pos, value) ==
    IF pos.node = Null \/ S.head[l] = Null
    THEN LET S1 == push_back(S, l, value)
         IN  IF S1.exc # "none" THEN S1
             ELSE [S1 EXCEPT !.ret = iterator(S1.prev[S1.head[l]], S1.head[l])]
    ELSE IF S.budget = 0 THEN Throw(S, "bad_alloc")
    ELSE
      LET cur == pos.node
          prv == S.prev[cur]
          node == FreshAddr(S)
          S1 == NewNode(S, node, value)
          S2 == [S1 EXCEPT !.next[node] = cur,
                           !.prev[node] = prv,
                           !.next[prv] = node,
                           !.prev[cur] = node]
      IN  [S2 EXCEPT !.count[l] = @ + 1, !.ret = iterator(node, S2.head[l])]

\* insert whose end case puts the value at the front
insert_end_as_push_front(S, l, pos, value) ==
    IF pos.node = Null \/ S.head[l] = Null
    THEN LET S1 == push_front(S, l, value)
         IN  IF S1.exc # "none" THEN S1
             ELSE [S1 EXCEPT !.ret = iterator(S1.prev[S1.head[l]], S1.head[l])]
    ELSE IF S.budget = 0 THEN Throw(S, "bad_alloc")
    ELSE
      LET cur == pos.node
          prv == S.prev[cur]
          node == FreshAddr(S)
          S1 == NewNode(S, node, value)
          S2 == [S1 EXCEPT !.next[node] = cur,
                           !.prev[node] = prv,
                           !.next[prv] = node,
                           !.prev[cur] = node]
          S3 == IF cur = S2.head[l] THEN [S2 EXCEPT !.head[l] = node] ELSE S2
      IN  [S3 EXCEPT !.count[l] = @ + 1, !.ret = iterator(node, S3.head[l])]

\* iterator insert(iterator pos, const T& value)
insert(S, l, pos, value) ==
    IF pos.node = Null \/ S.head[l] = Null
    THEN LET S1 == push_back(S, l, value)
         IN  IF S1.exc # "none" THEN S1
             ELSE [S1 EXCEPT !.ret = iterator(S1.prev[S1.head[l]], S1.head[l])]
    ELSE IF S.budget = 0 THEN Throw(S, "bad_alloc")
    ELSE
      LET cur == pos.node
          prv == S.prev[cur]
          node == FreshAddr(S)
          S1 == NewNode(S, node, value)
          S2 == [S1 EXCEPT !.next[node] = cur,
                           !.prev[node] = prv,
                           !.next[prv] = node,
                           !.prev[cur] = node]
          S3 == IF cur = S2.head[l] THEN [S2 EXCEPT !.head[l] = node] ELSE S2
      IN  [S3 EXCEPT !.count[l] = @ + 1, !.ret = iterator(node, S3.head[l])]

\* erase with its two checks in the other order
erase_checks_swapped(S, l, pos) ==
    IF pos.node = Null THEN Throw(S, "invalid_argument")
    ELSE IF empty(S, l) THEN Throw(S, "out_of_range")
    ELSE
      LET node == pos.node
          iter == iterator(IF S.next[node] = S.head[l] THEN Null
                           ELSE S.next[node], S.head[l])
      IN  IF S.next[node] = node
          THEN [DeleteNode(S, node) EXCEPT !.head[l] = Null,
                                           !.count[l] = @ - 1, !.ret = iter]
          ELSE LET S1 == [S EXCEPT !.next[S.prev[node]] = S.next[node]]
                   S2 == [S1 EXCEPT !.prev[S1.next[node]] = S1.prev[node]]
                   S3 == IF node = S2.head[l]
                         THEN [S2 EXCEPT !.head[l] = S2.next[node]] ELSE S2
               IN  [DeleteNode(S3, node) EXCEPT !.count[l] = @ - 1, !.ret = iter]

\* erase that returns the next node even when that node is the head
erase_returns_next(S, l, pos) ==
    IF empty(S, l) THEN Throw(S, "out_of_range")
    ELSE IF pos.node = Null THEN Throw(S, "invalid_argument")
    ELSE
      LET node == pos.node
          iter == iterator(S.next[node], S.head[l])
      IN  IF S.next[node] = node
          THEN [DeleteNode(S, node) EXCEPT !.head[l] = Null,
                                           !.count[l] = @ - 1, !.ret = iter]
          ELSE LET S1 == [S EXCEPT !.next[S.prev[node]] = S.next[node]]
                   S2 == [S1 EXCEPT !.prev[S1.next[node]] = S1.prev[node]]
                   S3 == IF node = S2.head[l]
                         THEN [S2 EXCEPT !.head[l] = S2.next[node]] ELSE S2
               IN  [DeleteNode(S3, node) EXCEPT !.count[l] = @ - 1, !.ret = iter]

\* erase that leaves head on the node it deleted when that node was the only one
erase_last_keeps_head(S, l, pos) ==
    IF empty(S, l) THEN Throw(S, "out_of_range")
    ELSE IF pos.node = Null THEN Throw(S, "invalid_argument")
    ELSE
      LET node == pos.node
          iter == iterator(IF S.next[node] = S.head[l] THEN Null
                           ELSE S.next[node], S.head[l])
      IN  IF S.next[node] = node
          THEN [DeleteNode(S, node) EXCEPT !.count[l] = @ - 1, !.ret = iter]
          ELSE LET S1 == [S EXCEPT !.next[S.prev[node]] = S.next[node]]
                   S2 == [S1 EXCEPT !.prev[S1.next[node]] = S1.prev[node]]
                   S3 == IF node = S2.head[l]
                         THEN [S2 EXCEPT !.head[l] = S2.next[node]] ELSE S2
               IN  [DeleteNode(S3, node) EXCEPT !.count[l] = @ - 1, !.ret = iter]

\* erase with `head = node->prev` for `head = node->next`
erase_head_to_prev(S, l, pos) ==
    IF empty(S, l) THEN Throw(S, "out_of_range")
    ELSE IF pos.node = Null THEN Throw(S, "invalid_argument")
    ELSE
      LET node == pos.node
          iter == iterator(IF S.next[node] = S.head[l] THEN Null
                           ELSE S.next[node], S.head[l])
      IN  IF S.next[node] = node
          THEN [DeleteNode(S, node) EXCEPT !.head[l] = Null,
                                           !.count[l] = @ - 1, !.ret = iter]
          ELSE LET S1 == [S EXCEPT !.next[S.prev[node]] = S.next[node]]
                   S2 == [S1 EXCEPT !.prev[S1.next[node]] = S1.prev[node]]
                   S3 == IF node = S2.head[l]
                         THEN [S2 EXCEPT !.head[l] = S2.prev[node]] ELSE S2
               IN  [DeleteNode(S3, node) EXCEPT !.count[l] = @ - 1, !.ret = iter]

\* iterator erase(iterator pos)
erase(S, l, pos) ==
    IF empty(S, l) THEN Throw(S, "out_of_range")
    ELSE IF pos.node = Null THEN Throw(S, "invalid_argument")
    ELSE
      LET node == pos.node
          iter == iterator(IF S.next[node] = S.head[l] THEN Null
                           ELSE S.next[node], S.head[l])
      IN  IF S.next[node] = node
          THEN [DeleteNode(S, node) EXCEPT !.head[l] = Null,
                                           !.count[l] = @ - 1, !.ret = iter]
          ELSE LET S1 == [S EXCEPT !.next[S.prev[node]] = S.next[node]]
                   S2 == [S1 EXCEPT !.prev[S1.next[node]] = S1.prev[node]]
                   S3 == IF node = S2.head[l]
                         THEN [S2 EXCEPT !.head[l] = S2.next[node]] ELSE S2
               IN  [DeleteNode(S3, node) EXCEPT !.count[l] = @ - 1, !.ret = iter]

\* clear with `if` in place of `while`: one pop_front
clear_once(S, l) == IF empty(S, l) THEN S ELSE pop_front(S, l)

\* void clear(): while (!empty()) pop_front();
RECURSIVE clear(_, _)
clear(S, l) == IF empty(S, l) THEN S ELSE clear(pop_front(S, l), l)

\* the loop of assign: for (i = 0; i < n; ++i) push_back(value);
RECURSIVE assign_loop(_, _, _, _, _)
assign_loop(S, l, i, n, value) ==
    IF ~(i < n) THEN S
    ELSE LET S1 == push_back(S, l, value)
         IN  IF S1.exc # "none" THEN S1 ELSE assign_loop(S1, l, i + 1, n, value)

\* assign without the clear(): the copies are appended
assign_no_clear(S, l, n, value) == assign_loop(S, l, 0, n, value)

\* void assign(size_t n, const T& value)
assign(S, l, n, value) == assign_loop(clear(S, l), l, 0, n, value)

\* a swap that exchanges the heads but not the counts
swap_heads_only(S, l, other) ==
    [S EXCEPT !.head = [@ EXCEPT ![l] = S.head[other], ![other] = S.head[l]]]

\* void swap(CircularList& other) noexcept
swap(S, l, other) ==
    [S EXCEPT !.head = [@ EXCEPT ![l] = S.head[other], ![other] = S.head[l]],
              !.count = [@ EXCEPT ![l] = S.count[other], ![other] = S.count[l]]]

\* CircularList(): head(nullptr), count(0)
default_ctor(S, l) == [S EXCEPT !.head[l] = Null, !.count[l] = 0]

\* the do-while loop of the copy constructor
RECURSIVE copy_loop(_, _, _, _, _)
copy_loop(S, l, other, current, elements_copied) ==
    IF S.next[current] = Null \/ S.prev[current] = Null
    THEN Throw(S, "runtime_error")
    ELSE
      LET S1 == push_back(S, l, S.data[current])
          cur1 == S1.next[current]
          copied1 == elements_copied + 1
      IN  IF S1.exc # "none" THEN S1
          ELSE IF copied1 > S1.count[other] THEN Throw(S1, "runtime_error")
          ELSE IF cur1 # S1.head[other]
               THEN copy_loop(S1, l, other, cur1, copied1)
          ELSE IF copied1 # S1.count[other] THEN Throw(S1, "runtime_error")
          ELSE S1

\* a copy constructor that takes over the source's ring instead of copying it
copy_ctor_shares_nodes(S, l, other) ==
    [S EXCEPT !.head[l] = S.head[other], !.count[l] = S.count[other]]

\* a copy constructor whose handler rethrows without clear()
copy_ctor_no_cleanup(S, l, other) ==
    LET S0 == default_ctor(S, l)
    IN  IF empty(S0, other) THEN S0
        ELSE IF S0.head[other] = Null THEN Throw(S0, "runtime_error")
        ELSE copy_loop(S0, l, other, S0.head[other], 0)

\* a copy constructor whose elements_copied starts at 1
copy_ctor_counts_from_one(S, l, other) ==
    LET S0 == default_ctor(S, l)
    IN  IF empty(S0, other) THEN S0
        ELSE LET T == IF S0.head[other] = Null THEN Throw(S0, "runtime_error")
                      ELSE copy_loop(S0, l, other, S0.head[other], 1)
             IN  IF T.exc = "none" THEN T
                 ELSE Throw(clear(Throw(T, "none"), l), T.exc)

\* CircularList(const CircularList& other)
copy_ctor(S, l, other) ==
    LET S0 == default_ctor(S, l)
    IN  IF empty(S0, other) THEN S0
        ELSE LET T == IF S0.head[other] = Null THEN Throw(S0, "runtime_error")
                      ELSE copy_loop(S0, l, other, S0.head[other], 0)
             IN  IF T.exc = "none" THEN T
                 ELSE Throw(clear(Throw(T, "none"), l), T.exc)

\* the move constructor without `other.count = 0`
move_ctor_keeps_count(S, l, other) ==
    [S EXCEPT !.head = [@ EXCEPT ![l] = S.head[other], ![other] = Null],
              !.count = [@ EXCEPT ![l] = S.count[other]]]

\* CircularList(CircularList&& other) noexcept
move_ctor(S, l, other) ==
    [S EXCEPT !.head = [@ EXCEPT ![l] = S.head[other], ![other] = Null],
              !.count = [@ EXCEPT ![l] = S.count[other], ![other] = 0]]

\* a destructor that drops the ring without releasing its nodes
dtor_leaks(S, l) == [S EXCEPT !.head[l] = Null, !.count[l] = 0]

\* ~CircularList()
dtor(S, l) == clear(S, l)

\* a copy assignment that empties the list and then copies into it
copy_assign_clear_first(S, l, other) ==
    IF l # other THEN copy_ctor(clear(S, l), l, other) ELSE S

\* CircularList& operator=(const CircularList& other)
copy_assign(S, l, other) ==
    IF l # other
    THEN LET T == copy_ctor(S, Tmp, other)
         IN  IF T.exc # "none" THEN T
             ELSE dtor(swap(T, l, Tmp), Tmp)
    ELSE S

\* a move assignment without clear()
move_assign_no_clear(S, l, other) ==
    IF l # other
    THEN [S EXCEPT !.head = [@ EXCEPT ![l] = S.head[other], ![other] = Null],
                   !.count = [@ EXCEPT ![l] = S.count[other], ![other] = 0]]
    ELSE S

\* a move assignment without the test `this != &other`
move_assign_unchecked(S, l, other) ==
    LET S1 == clear(S, l)
    IN  [S1 EXCEPT !.head = [@ EXCEPT ![l] = S1.head[other], ![other] = Null],
                   !.count = [@ EXCEPT ![l] = S1.count[other], ![other] = 0]]

\* a move assignment without `other.head = nullptr; other.count = 0`
move_assign_keeps_source(S, l, other) ==
    IF l # other
    THEN LET S1 == clear(S, l)
         IN  [S1 EXCEPT !.head[l] = S1.head[other],
                        !.count[l] = S1.count[other]]
    ELSE S

\* CircularList& operator=(CircularList&& other) noexcept
move_assign(S, l, other) ==
    IF l # other
    THEN LET S1 == clear(S, l)
         IN  [S1 EXCEPT !.head = [@ EXCEPT ![l] = S1.head[other], ![other] = Null],
                        !.count = [@ EXCEPT ![l] = S1.count[other], ![other] = 0]]
    ELSE S

\* front without the check for an empty list
front_unchecked(S, l) == [S EXCEPT !.val = S.data[S.head[l]]]

\* T& front()
front(S, l) ==
    IF empty(S, l) THEN Throw(S, "out_of_range")
    ELSE [S EXCEPT !.val = S.data[S.head[l]]]

\* T& back()
back(S, l) ==
    IF empty(S, l) THEN Throw(S, "out_of_range")
    ELSE [S EXCEPT !.val = S.data[S.prev[S.head[l]]]]

\* iterator begin()
begin(S, l) == iterator(S.head[l], S.head[l])

\* iterator end()
end(S, l) == iterator(Null, S.head[l])

\* const_iterator(Node* n = nullptr, Node* h = nullptr)
const_iterator(n, h) == [node |-> n, head |-> h]

\* const_iterator begin() const
begin_const(S, l) == const_iterator(S.head[l], S.head[l])

\* const_iterator end() const
end_const(S, l) == const_iterator(Null, S.head[l])

\* const_iterator cbegin() const
cbegin(S, l) == begin_const(S, l)

\* const_iterator cend() const
cend(S, l) == end_const(S, l)

\* std::reverse_iterator<Iter>: it holds a copy of the iterator given to it
reverse_iterator(i) == [current |-> i]

\* rbegin that wraps begin()
rbegin_at_begin(S, l) == reverse_iterator(begin(S, l))

\* reverse_iterator rbegin()
rbegin(S, l) == reverse_iterator(end(S, l))

\* reverse_iterator rend()
rend(S, l) == reverse_iterator(begin(S, l))

\* const_reverse_iterator rbegin() const
rbegin_const(S, l) == reverse_iterator(end_const(S, l))

\* const_reverse_iterator rend() const
rend_const(S, l) == reverse_iterator(begin_const(S, l))

\* const_reverse_iterator crbegin() const
crbegin(S, l) == rbegin_const(S, l)

\* const_reverse_iterator crend() const
crend(S, l) == rend_const(S, l)

\* ------------------------------------------------------- reading the ring
\* The nodes met by following nx from n, k times: <<n, nx[n], nx[nx[n]], ...>>
RECURSIVE Walk(_, _, _)
Walk(nx, n, k) == IF k = 0 THEN <<>> ELSE <<n>> \o Walk(nx, nx[n], k - 1)

Range(s) == {s[i] : i \in 1..Len(s)}

\* front-to-back nodes and values of list l in the current state
NodeSeq(l) == Walk(next, head[l], count[l])
NodeSeqNext(l) == Walk(next', head'[l], count'[l])
Nodes(l) == Range(NodeSeq(l))
ValueSeq(l) == [i \in 1..count[l] |-> data[NodeSeq(l)[i]]]
ValueSeqNext(l) == [i \in 1..count'[l] |-> data'[NodeSeqNext(l)[i]]]

\* the valid positions of list l: an iterator on each node, and end()
Positions(l) == {iterator(n, head[l]) : n \in Nodes(l) \cup {Null}}

\* on an empty list, iterators left over from nodes that were erased
StalePositions(l) ==
    IF count[l] = 0 THEN {iterator(n, n) : n \in Addr \ allocated} ELSE {}

Min(x, y) == IF x <= y THEN x ELSE y

\* enough unused addresses for k allocations, of which `budget` succeed
Room(S, k, budget) == Cardinality(FreeAddrs(S)) >= Min(k, budget)

Budgets == {0, NoFail}

\* ------------------------------------------------------ iterator operators
\* An iterator operation works on the iterator alone.  Reading a node that was
\* deleted is undefined behaviour: every value the read could produce is an
\* outcome, and the outcome is marked uaf.  Each operator gives the set of
\* outcomes [it, exc, val, uaf].
Outcome(i, e, x, u) == [it |-> i, exc |-> e, val |-> x, uaf |-> u]

\* T& iterator::operator*()
iterator_deref(i) ==
    IF i.node = Null THEN {Outcome(i, "out_of_range", 0, FALSE)}
    ELSE IF i.node \in allocated
         THEN {Outcome(i, "none", data[i.node], FALSE)}
         ELSE {Outcome(i, "none", x, TRUE) : x \in Values \cup {0}}

\* operator++ that moves an end iterator to the head instead of throwing
iterator_inc_wraps(i) ==
    IF i.node = Null THEN {Outcome(iterator(i.head, i.head), "none", 0, FALSE)}
    ELSE IF i.node \in allocated
         THEN {Outcome(iterator(next[i.node], i.head), "none", 0, FALSE)}
         ELSE {Outcome(iterator(p, i.head), "none", 0, TRUE) : p \in Ptr}

\* iterator& iterator::operator++()
iterator_inc(i) ==
    IF i.node = Null THEN {Outcome(i, "out_of_range", 0, FALSE)}
    ELSE IF i.node \in allocated
         THEN {Outcome(iterator(next[i.node], i.head), "none", 0, FALSE)}
         ELSE {Outcome(iterator(p, i.head), "none", 0, TRUE) : p \in Ptr}

\* operator-- that moves an end iterator to the head node
iterator_dec_to_head(i) ==
    IF i.head = Null THEN {Outcome(i, "out_of_range", 0, FALSE)}
    ELSE IF i.node = Null
         THEN {Outcome(iterator(i.head, i.head), "none", 0, FALSE)}
         ELSE IF i.node \in allocated
              THEN {Outcome(iterator(prev[i.node], i.head), "none", 0, FALSE)}
              ELSE {Outcome(iterator(p, i.head), "none", 0, TRUE) : p \in Ptr}

\* operator-- that refuses to step back from the head node
iterator_dec_stops_at_head(i) ==
    IF i.head = Null \/ i.node = i.head
    THEN {Outcome(i, "out_of_range", 0, FALSE)}
    ELSE IF i.node = Null
         THEN IF i.head \in allocated
              THEN {Outcome(iterator(prev[i.head], i.head), "none", 0, FALSE)}
              ELSE {Outcome(iterator(p, i.head), "none", 0, TRUE) : p \in Ptr}
         ELSE IF i.node \in allocated
              THEN {Outcome(iterator(prev[i.node], i.head), "none", 0, FALSE)}
              ELSE {Outcome(iterator(p, i.head), "none", 0, TRUE) : p \in Ptr}

\* iterator& iterator::operator--()
iterator_dec(i) ==
    IF i.head = Null THEN {Outcome(i, "out_of_range", 0, FALSE)}
    ELSE IF i.node = Null
         THEN IF i.head \in allocated
              THEN {Outcome(iterator(prev[i.head], i.head), "none", 0, FALSE)}
              ELSE {Outcome(iterator(p, i.head), "none", 0, TRUE) : p \in Ptr}
         ELSE IF i.node \in allocated
              THEN {Outcome(iterator(prev[i.node], i.head), "none", 0, FALSE)}
              ELSE {Outcome(iterator(p, i.head), "none", 0, TRUE) : p \in Ptr}

\* const T& const_iterator::operator*() const
const_iterator_deref(i) ==
    IF i.node = Null THEN {Outcome(i, "out_of_range", 0, FALSE)}
    ELSE IF i.node \in allocated
         THEN {Outcome(i, "none", data[i.node], FALSE)}
         ELSE {Outcome(i, "none", x, TRUE) : x \in Values \cup {0}}

\* const_iterator operator++ without the test for the end iterator
const_iterator_inc_past_end(i) ==
    IF i.node = Null THEN {Outcome(i, "none", 0, FALSE)}
    ELSE IF i.node \in allocated
         THEN {Outcome(const_iterator(next[i.node], i.head), "none", 0, FALSE)}
         ELSE {Outcome(const_iterator(p, i.head), "none", 0, TRUE) : p \in Ptr}

\* const_iterator& const_iterator::operator++()
const_iterator_inc(i) ==
    IF i.node = Null THEN {Outcome(i, "out_of_range", 0, FALSE)}
    ELSE IF i.node \in allocated
         THEN {Outcome(const_iterator(next[i.node], i.head), "none", 0, FALSE)}
         ELSE {Outcome(const_iterator(p, i.head), "none", 0, TRUE) : p \in Ptr}

\* const_iterator& const_iterator::operator--()
const_iterator_dec(i) ==
    IF i.head = Null THEN {Outcome(i, "out_of_range", 0, FALSE)}
    ELSE IF i.node = Null
         THEN IF i.head \in allocated
              THEN {Outcome(const_iterator(prev[i.head], i.head), "none", 0, FALSE)}
              ELSE {Outcome(const_iterator(p, i.head), "none", 0, TRUE) : p \in Ptr}
         ELSE IF i.node \in allocated
              THEN {Outcome(const_iterator(prev[i.node], i.head), "none", 0, FALSE)}
              ELSE {Outcome(const_iterator(p, i.head), "none", 0, TRUE) : p \in Ptr}

\* operator* of std::reverse_iterator<iterator>: Iter tmp = current;
\* return *--tmp;  The outcome keeps the iterator held, which is not moved.
\* When --tmp read a deleted node, *tmp goes on with the pointer it found there.
reverse_iterator_deref(r) ==
    UNION {IF d.exc # "none"
           THEN {Outcome(r.current, d.exc, 0, d.uaf)}
           ELSE {Outcome(r.current, o.exc, o.val, d.uaf \/ o.uaf)
                    : o \in iterator_deref(d.it)}
           : d \in iterator_dec(r.current)}

\* operator++ of std::reverse_iterator<iterator>: --current
reverse_iterator_inc(r) == iterator_dec(r.current)

\* operator* of std::reverse_iterator<const_iterator>
const_reverse_iterator_deref(r) ==
    UNION {IF d.exc # "none"
           THEN {Outcome(r.current, d.exc, 0, d.uaf)}
           ELSE {Outcome(r.current, o.exc, o.val, d.uaf \/ o.uaf)
                    : o \in const_iterator_deref(d.it)}
           : d \in const_iterator_dec(r.current)}

\* operator++ of std::reverse_iterator<const_iterator>: --current
const_reverse_iterator_inc(r) == const_iterator_dec(r.current)

\* bool iterator::operator==(const iterator& other) const
iterator_eq(i, j) == i.node = j.node

\* bool iterator::operator!=(const iterator& other) const
iterator_ne(i, j) == i.node # j.node

\* bool const_iterator::operator==(const const_iterator& other) const
const_iterator_eq(i, j) == i.node = j.node

\* bool const_iterator::operator!=(const const_iterator& other) const
const_iterator_ne(i, j) == i.node # j.node

\* operator== of std::reverse_iterator: the iterators held are compared
reverse_iterator_eq(r, q) == iterator_eq(r.current, q.current)

const_reverse_iterator_eq(r, q) == const_iterator_eq(r.current, q.current)

\* ----------------------------------------------------- comparison of lists
\* what a comparison gives: the exception in flight and the bool returned
Answer(e, b) == [exc |-> e, ret |-> b]

\* the while loop of operator==; *it1 and ++it1 cannot throw after the test
\* it1 != end(), *it2 and ++it2 throw on a null node
RECURSIVE eq_loop(_, _, _, _, _, _)
eq_loop(S, l, other, it1, it2, elements_compared) ==
    IF const_iterator_ne(it1, end_const(S, l)) /\ elements_compared < size(S, l)
    THEN IF it2.node = Null THEN Answer("out_of_range", FALSE)
         ELSE IF S.data[it1.node] # S.data[it2.node] THEN Answer("none", FALSE)
         ELSE eq_loop(S, l, other,
                      const_iterator(S.next[it1.node], it1.head),
                      const_iterator(S.next[it2.node], it2.head),
                      elements_compared + 1)
    ELSE Answer("none", elements_compared = size(S, l))

\* operator== that compares the sizes only
operator_eq_sizes_only(S, l, other) ==
    Answer("none", size(S, l) = size(S, other))

\* bool operator==(const CircularList& other) const
operator_eq(S, l, other) ==
    IF size(S, l) # size(S, other) THEN Answer("none", FALSE)
    ELSE IF empty(S, l) THEN Answer("none", TRUE)
    ELSE eq_loop(S, l, other, begin_const(S, l), begin_const(S, other), 0)

\* bool operator!=(const CircularList& other) const
operator_ne(S, l, other) ==
    LET r == operator_eq(S, l, other)
    IN  IF r.exc # "none" THEN r ELSE Answer("none", ~r.ret)

\* the while loop of operator<; the elements are ints, compared by <
RECURSIVE lt_loop(_, _, _, _, _, _)
lt_loop(S, l, other, it1, it2, elements_compared) ==
    IF /\ const_iterator_ne(it1, end_const(S, l))
       /\ const_iterator_ne(it2, end_const(S, other))
       /\ elements_compared < Min(size(S, l), size(S, other))
    THEN IF S.data[it1.node] < S.data[it2.node] THEN Answer("none", TRUE)
         ELSE IF S.data[it2.node] < S.data[it1.node] THEN Answer("none", FALSE)
         ELSE lt_loop(S, l, other,
                      const_iterator(S.next[it1.node], it1.head),
                      const_iterator(S.next[it2.node], it2.head),
                      elements_compared + 1)
    ELSE Answer("none", size(S, l) < size(S, other))

\* operator< that looks at the first elements only
operator_lt_first_only(S, l, other) ==
    IF empty(S, l) /\ empty(S, other) THEN Answer("none", FALSE)
    ELSE IF empty(S, l) THEN Answer("none", TRUE)
    ELSE IF empty(S, other) THEN Answer("none", FALSE)
    ELSE IF S.data[S.head[l]] < S.data[S.head[other]] THEN Answer("none", TRUE)
    ELSE IF S.data[S.head[other]] < S.data[S.head[l]] THEN Answer("none", FALSE)
    ELSE Answer("none", size(S, l) < size(S, other))

\* bool operator<(const CircularList& other) const
operator_lt(S, l, other) ==
    IF empty(S, l) /\ empty(S, other) THEN Answer("none", FALSE)
    ELSE IF empty(S, l) THEN Answer("none", TRUE)
    ELSE IF empty(S, other) THEN Answer("none", FALSE)
    ELSE lt_loop(S, l, other, begin_const(S, l), begin_const(S, other), 0)

\* bool operator>(const CircularList& other) const
operator_gt(S, l, other) == operator_lt(S, other, l)

\* operator<= as `*this < other`
operator_le_strict(S, l, other) == operator_lt(S, l, other)

\* bool operator<=(const CircularList& other) const
operator_le(S, l, other) ==
    LET r == operator_lt(S, other, l)
    IN  IF r.exc # "none" THEN r ELSE Answer("none", ~r.ret)

\* bool operator>=(const CircularList& other) const
operator_ge(S, l, other) ==
    LET r == operator_lt(S, l, other)
    IN  IF r.exc # "none" THEN r ELSE Answer("none", ~r.ret)

\* ---------------------------------------------------------------- actions
\* Every action runs one member function to its end on the current state and
\* records the call and its outcome in res.  The history variables (itv, ref,
\* pushes, pops) are set by the specifications that use them.
Result(op, l, pos, v, S) ==
    [op |-> op, l |-> l, pos |-> pos, v |-> v,
     exc |-> S.exc, ret |-> S.ret, val |-> S.val, uaf |-> FALSE]

Commit(S) ==
    /\ data' = S.data
    /\ next' = S.next
    /\ prev' = S.prev
    /\ allocated' = S.allocated
    /\ head' = S.head
    /\ count' = S.count

PushBack(l, v, b) ==
    /\ alive[l] /\ Room(St(b), 1, b)
    /\ \E a \in Places(St(b)) :
          LET S == push_back(StAt(b, a), l, v)
          IN  Commit(S) /\ res' = Result("push_back", l, NoIt, v, S)
    /\ UNCHANGED <<alive, it>>

PushFront(l, v, b) ==
    /\ alive[l] /\ Room(St(b), 1, b)
    /\ \E a \in Places(St(b)) :
          LET S == push_front(StAt(b, a), l, v)
          IN  Commit(S) /\ res' = Result("push_front", l, NoIt, v, S)
    /\ UNCHANGED <<alive, it>>

PopBack(l) ==
    /\ alive[l]
    /\ LET S == pop_back(St(NoFail), l)
       IN  Commit(S) /\ res' = Result("pop_back", l, NoIt, 0, S)
    /\ UNCHANGED <<alive, it>>

\* list.push_back(v); list.pop_back();  -- a push_back that throws ends the
\* sequence, pop_back is not reached
PushBackPopBack(l, v, b) ==
    /\ alive[l] /\ Room(St(b), 1, b)
    /\ LET S1 == push_back(St(b), l, v)
           S == IF S1.exc # "none" THEN S1 ELSE pop_back(S1, l)
       IN  Commit(S) /\ res' = Result("push_back_pop_back", l, NoIt, v, S)
    /\ UNCHANGED <<alive, it>>

PopFront(l) ==
    /\ alive[l]
    /\ LET S == pop_front(St(NoFail), l)
       IN  Commit(S) /\ res' = Result("pop_front", l, NoIt, 0, S)
    /\ UNCHANGED <<alive, it>>

Insert(l, pos, v, b) ==
    /\ alive[l] /\ Room(St(b), 1, b)
    /\ pos \in Positions(l)
    /\ \E a \in Places(St(b)) :
          LET S == insert(StAt(b, a), l, pos, v)
          IN  Commit(S) /\ res' = Result("insert", l, pos, v, S)
    /\ UNCHANGED <<alive, it>>

Erase(l, pos) ==
    /\ alive[l]
    /\ pos \in Positions(l) \cup StalePositions(l)
    /\ LET S == erase(St(NoFail), l, pos)
       IN  Commit(S) /\ res' = Result("erase", l, pos, 0, S)
    /\ UNCHANGED <<alive, it>>

Clear(l) ==
    /\ alive[l]
    /\ LET S == clear(St(NoFail), l)
       IN  Commit(S) /\ res' = Result("clear", l, NoIt, 0, S)
    /\ UNCHANGED <<alive, it>>

\* res.val records the argument n
Assign(l, n, v, b) ==
    /\ alive[l] /\ (b < n \/ b = NoFail) /\ Room(clear(St(b), l), n, b)
    /\ LET S == assign(St(b), l, n, v)
       IN  Commit(S) /\ res' = Result("assign", l, NoIt, v, [S EXCEPT !.val = n])
    /\ UNCHANGED <<alive, it>>

\* res.v records whether the other list is the list itself (1) or not (0)
Swap(l, o) ==
    /\ alive[l] /\ alive[o]
    /\ LET S == swap(St(NoFail), l, o)
       IN  Commit(S)
           /\ res' = Result("swap", l, NoIt, IF l = o THEN 1 ELSE 0, S)
    /\ UNCHANGED <<alive, it>>

Front(l) ==
    /\ alive[l]
    /\ LET S == front(St(NoFail), l)
       IN  Commit(S) /\ res' = Result("front", l, NoIt, 0, S)
    /\ UNCHANGED <<alive, it>>

Back(l) ==
    /\ alive[l]
    /\ LET S == back(St(NoFail), l)
       IN  Commit(S) /\ res' = Result("back", l, NoIt, 0, S)
    /\ UNCHANGED <<alive, it>>

DefaultCtor(l) ==
    /\ ~alive[l]
    /\ LET S == default_ctor(St(NoFail), l)
       IN  Commit(S) /\ res' = Result("default_ctor", l, NoIt, 0, S)
    /\ alive' = [alive EXCEPT ![l] = TRUE]
    /\ UNCHANGED it

\* An object whose constructor throws never comes to life.
CopyCtor(l, o, b) ==
    /\ ~alive[l] /\ alive[o]
    /\ (b < count[o] \/ b = NoFail) /\ Room(St(b), count[o], b)
    /\ LET S == copy_ctor(St(b), l, o)
       IN  /\ Commit(S) /\ res' = Result("copy_ctor", l, NoIt, 0, S)
           /\ alive' = [alive EXCEPT ![l] = (S.exc = "none")]
    /\ UNCHANGED it

MoveCtor(l, o) ==
    /\ ~alive[l] /\ alive[o]
    /\ LET S == move_ctor(St(NoFail), l, o)
       IN  Commit(S) /\ res' = Result("move_ctor", l, NoIt, 0, S)
    /\ alive' = [alive EXCEPT ![l] = TRUE]
    /\ UNCHANGED it

Dtor(l) ==
    /\ alive[l]
    /\ LET S == dtor(St(NoFail), l)
       IN  Commit(S) /\ res' = Result("dtor", l, NoIt, 0, S)
    /\ alive' = [alive EXCEPT ![l] = FALSE]
    /\ UNCHANGED it

\* res.v records whether the source is the list itself (1) or the other (0)
CopyAssign(l, o, b) ==
    /\ alive[l] /\ alive[o]
    /\ (b = NoFail \/ (l # o /\ b < count[o]))
    /\ Room(St(b), IF l = o THEN 0 ELSE count[o], b)
    /\ LET S == copy_assign(St(b), l, o)
       IN  Commit(S)
           /\ res' = Result("copy_assign", l, NoIt, IF l = o THEN 1 ELSE 0, S)
    /\ UNCHANGED <<alive, it>>

MoveAssign(l, o) ==
    /\ alive[l] /\ alive[o]
    /\ LET S == move_assign(St(NoFail), l, o)
       IN  Commit(S)
           /\ res' = Result("move_assign", l, NoIt, IF l = o THEN 1 ELSE 0, S)
    /\ UNCHANGED <<alive, it>>

\* a == b, a != b: res.val records the bool returned (1 true, 0 false) and
\* res.v whether the right operand is the list itself (1) or the other one (0)
Compared(op, l, o, r) ==
    [op |-> op, l |-> l, pos |-> NoIt, v |-> IF l = o THEN 1 ELSE 0,
     exc |-> r.exc, ret |-> NoIt, val |-> IF r.ret THEN 1 ELSE 0, uaf |-> FALSE]

Eq(l, o) ==
    /\ alive[l] /\ alive[o]
    /\ res' = Compared("eq", l, o, operator_eq(St(NoFail), l, o))
    /\ UNCHANGED <<data, next, prev, allocated, head, count, alive, it>>

Ne(l, o) ==
    /\ alive[l] /\ alive[o]
    /\ res' = Compared("ne", l, o, operator_ne(St(NoFail), l, o))
    /\ UNCHANGED <<data, next, prev, allocated, head, count, alive, it>>

Lt(l, o) ==
    /\ alive[l] /\ alive[o]
    /\ res' = Compared("lt", l, o, operator_lt(St(NoFail), l, o))
    /\ UNCHANGED <<data, next, prev, allocated, head, count, alive, it>>

Gt(l, o) ==
    /\ alive[l] /\ alive[o]
    /\ res' = Compared("gt", l, o, operator_gt(St(NoFail), l, o))
    /\ UNCHANGED <<data, next, prev, allocated, head, count, alive, it>>

Le(l, o) ==
    /\ alive[l] /\ alive[o]
    /\ res' = Compared("le", l, o, operator_le(St(NoFail), l, o))
    /\ UNCHANGED <<data, next, prev, allocated, head, count, alive, it>>

Ge(l, o) ==
    /\ alive[l] /\ alive[o]
    /\ res' = Compared("ge", l, o, operator_ge(St(NoFail), l, o))
    /\ UNCHANGED <<data, next, prev, allocated, head, count, alive, it>>

\* ----------------------------------------------------------- specification
NoRes ==
    [op |-> "none", l |-> "a", pos |-> NoIt, v |-> 0,
     exc |-> "none", ret |-> NoIt, val |-> 0, uaf |-> FALSE]

NoItv == [src |-> "none", mut |-> "", steps |-> 0]

\* CircularList<int> a;  (b is declared later, by one of the constructors)
Init ==
    /\ data = [n \in Ptr |-> 0]
    /\ next = [n \in Ptr |-> Null]
    /\ prev = [n \in Ptr |-> Null]
    /\ allocated = {}
    /\ head = [l \in AllLists |-> Null]
    /\ count = [l \in AllLists |-> 0]
    /\ alive = [l \in AllLists |-> l = "a"]
    /\ res = NoRes
    /\ it = NoIt
    /\ itv = NoItv
    /\ ref = <<>>
    /\ pushes = 0
    /\ pops = 0

FailAt == (0..MaxFail) \cup {NoFail}

Plain == UNCHANGED <<itv, ref, pushes, pops>>

\* k more nodes keep the number of live nodes within MaxLive
Fits(k) == Cardinality(allocated) + k <= MaxLive

\* The public operations, on two list objects.
Next ==
    \/ \E l \in Lists, v \in Values, b \in Budgets :
          Fits(Min(1, b)) /\ PushBack(l, v, b) /\ Plain
    \/ \E l \in Lists, v \in Values, b \in Budgets :
          Fits(Min(1, b)) /\ PushFront(l, v, b) /\ Plain
    \/ \E l \in Lists : PopBack(l) /\ Plain
    \/ \E l \in Lists : PopFront(l) /\ Plain
    \/ \E l \in Lists, v \in Values, b \in Budgets :
          \E pos \in Positions(l) : Fits(Min(1, b)) /\ Insert(l, pos, v, b) /\ Plain
    \/ \E l \in Lists : \E pos \in Positions(l) \cup StalePositions(l) :
          Erase(l, pos) /\ Plain
    \/ \E l \in Lists : Clear(l) /\ Plain
    \/ \E l \in Lists, n \in 0..MaxAssign, v \in Values, b \in FailAt :
          Fits(Min(n, b) - count[l]) /\ Assign(l, n, v, b) /\ Plain
    \/ \E l \in Lists, o \in Lists : Swap(l, o) /\ Plain
    \/ \E l \in Lists : Front(l) /\ Plain
    \/ \E l \in Lists : Back(l) /\ Plain
    \/ \E l \in Lists : DefaultCtor(l) /\ Plain
    \/ \E l \in Lists, o \in Lists, b \in FailAt :
          Fits(Min(count[o], b)) /\ CopyCtor(l, o, b) /\ Plain
    \/ \E l \in Lists, o \in Lists : MoveCtor(l, o) /\ Plain
    \/ \E l \in Lists : Dtor(l) /\ Plain
    \/ \E l \in Lists, o \in Lists, b \in FailAt :
          Fits(IF l = o THEN 0 ELSE Min(count[o], b)) /\ CopyAssign(l, o, b) /\ Plain
    \/ \E l \in Lists, o \in Lists : MoveAssign(l, o) /\ Plain

Spec == Init /\ [][Next]_vars

\* The operations of one list object, a.
NextOne ==
    \/ \E v \in Values, b \in Budgets :
          Fits(Min(1, b)) /\ PushBack("a", v, b) /\ Plain
    \/ \E v \in Values, b \in Budgets :
          Fits(Min(1, b)) /\ PushFront("a", v, b) /\ Plain
    \/ PopBack("a") /\ Plain
    \/ PopFront("a") /\ Plain
    \/ \E v \in Values, b \in Budgets :
          \E pos \in Positions("a") : Fits(Min(1, b)) /\ Insert("a", pos, v, b) /\ Plain
    \/ \E pos \in Positions("a") \cup StalePositions("a") :
          Erase("a", pos) /\ Plain
    \/ Clear("a") /\ Plain
    \/ \E n \in 0..MaxAssign, v \in Values, b \in FailAt :
          Fits(Min(n, b) - count["a"]) /\ Assign("a", n, v, b) /\ Plain
    \/ Front("a") /\ Plain
    \/ Back("a") /\ Plain

SpecOne == Init /\ [][NextOne]_vars

\* The operations of one list object, and a push_back undone at once by a
\* pop_back; the node pushed may be the one beyond MaxLive.
NextRound ==
    \/ NextOne
    \/ \E v \in Values, b \in Budgets : PushBackPopBack("a", v, b) /\ Plain

SpecRound == Init /\ [][NextRound]_vars

\* ---------------------------------------------------------- a scenario
\* CircularList<int> list; three push_back, one push_front, erase(begin()),
\* with every choice of the four values; ref records the values passed.
ScValues == 0..3

ScPushBack(v) ==
    /\ Len(ref) < 3
    /\ PushBack("a", v, NoFail)
    /\ ref' = Append(ref, v)
    /\ UNCHANGED <<itv, pushes, pops>>

ScPushFront(v) ==
    /\ Len(ref) = 3
    /\ PushFront("a", v, NoFail)
    /\ ref' = Append(ref, v)
    /\ UNCHANGED <<itv, pushes, pops>>

ScEraseBegin ==
    /\ Len(ref) = 4 /\ res.op = "push_front"
    /\ Erase("a", begin(St(NoFail), "a"))
    /\ UNCHANGED <<itv, ref, pushes, pops>>

NextScenario ==
    \/ \E v \in ScValues : ScPushBack(v)
    \/ \E v \in ScValues : ScPushFront(v)
    \/ ScEraseBegin

SpecScenario == Init /\ [][NextScenario]_vars

\* ------------------------------------------------------ copies and moves
\* Two list objects built by push_back and pop_front, constructed from one
\* another, assigned to one another and compared, on the whole heap.
NextCopy ==
    \/ \E l \in Lists, v \in Values :
          count[l] < MaxCopyLen /\ PushBack(l, v, NoFail) /\ Plain
    \/ \E l \in Lists : PopFront(l) /\ Plain
    \/ \E l \in Lists : DefaultCtor(l) /\ Plain
    \/ \E l \in Lists, o \in Lists, b \in FailAt : CopyCtor(l, o, b) /\ Plain
    \/ \E l \in Lists, o \in Lists : MoveCtor(l, o) /\ Plain
    \/ \E l \in Lists : Dtor(l) /\ Plain
    \/ \E l \in Lists, o \in Lists, b \in FailAt : CopyAssign(l, o, b) /\ Plain
    \/ \E l \in Lists, o \in Lists : MoveAssign(l, o) /\ Plain
    \/ \E l \in Lists, o \in Lists : Eq(l, o) /\ Plain
    \/ \E l \in Lists, o \in Lists : Ne(l, o) /\ Plain

SpecCopy == Init /\ [][NextCopy]_vars

\* ------------------------------------------------------------ comparisons
\* Two list objects built by push_back and pop_front, and compared with one
\* another by the ordering operators.
NextCmp ==
    \/ \E l \in Lists, v \in Values :
          count[l] < MaxCopyLen /\ PushBack(l, v, NoFail) /\ Plain
    \/ \E l \in Lists : PopFront(l) /\ Plain
    \/ \E l \in Lists : DefaultCtor(l) /\ Plain
    \/ \E l \in Lists, o \in Lists : Lt(l, o) /\ Plain
    \/ \E l \in Lists, o \in Lists : Gt(l, o) /\ Plain
    \/ \E l \in Lists, o \in Lists : Le(l, o) /\ Plain
    \/ \E l \in Lists, o \in Lists : Ge(l, o) /\ Plain

SpecCmp == Init /\ [][NextCmp]_vars

\* ------------------------------------------------ the list beside a reference
\* The four deque operations on list a, with a reference sequence kept beside
\* it by append / prepend / remove-last / remove-first, and counters of the
\* pushes and of the pops that did not throw.
More == pushes + pops < MaxOps

DqPushBack(v) ==
    /\ More /\ count["a"] < MaxLen
    /\ PushBack("a", v, NoFail)
    /\ ref' = Append(ref, v)
    /\ pushes' = pushes + 1
    /\ UNCHANGED <<pops, itv>>

DqPushFront(v) ==
    /\ More /\ count["a"] < MaxLen
    /\ PushFront("a", v, NoFail)
    /\ ref' = <<v>> \o ref
    /\ pushes' = pushes + 1
    /\ UNCHANGED <<pops, itv>>

DqPopBack ==
    /\ More
    /\ PopBack("a")
    /\ ref' = IF ref = <<>> THEN ref ELSE SubSeq(ref, 1, Len(ref) - 1)
    /\ pops' = IF res'.exc = "none" THEN pops + 1 ELSE pops
    /\ UNCHANGED <<pushes, itv>>

DqPopFront ==
    /\ More
    /\ PopFront("a")
    /\ ref' = IF ref = <<>> THEN ref ELSE Tail(ref)
    /\ pops' = IF res'.exc = "none" THEN pops + 1 ELSE pops
    /\ UNCHANGED <<pushes, itv>>

NextDeque ==
    \/ \E v \in Values : DqPushBack(v)
    \/ \E v \in Values : DqPushFront(v)
    \/ DqPopBack
    \/ DqPopFront

SpecDeque == Init /\ [][NextDeque]_vars

\* ------------------------------------------------- a client with an iterator
\* The client keeps one iterator `it` of list a while it goes on changing the
\* list.  An iterator that came out of undefined behaviour ("wild") is not
\* used again before the client obtains a new one.  itv remembers how `it` was obtained (src), the change made to the
\* list since then ("" none, "many" more than one, "other" one that is not
\* a push_front, a pop_front or an insert or erase at begin()) and, for an iterator
\* obtained by begin() and only incremented since, the number of increments.
Fresh(src) == [src |-> src, mut |-> "", steps |-> 0]

Aged(label) ==
    IF itv.src \in {"none", "wild"} \/ res'.exc # "none" THEN itv
    ELSE [src |-> itv.src, mut |-> IF itv.mut = "" THEN label ELSE "many",
          steps |-> 0]

Ghost == UNCHANGED <<ref, pushes, pops>>

ItPushBack(v) ==
    /\ count["a"] < MaxIterLen
    /\ PushBack("a", v, NoFail) /\ itv' = Aged("other") /\ Ghost

ItPushFront(v) ==
    /\ count["a"] < MaxIterLen
    /\ PushFront("a", v, NoFail) /\ itv' = Aged("push_front") /\ Ghost

ItPopBack == PopBack("a") /\ itv' = Aged("other") /\ Ghost

ItPopFront == PopFront("a") /\ itv' = Aged("pop_front") /\ Ghost

ItInsert(pos, v) ==
    /\ count["a"] < MaxIterLen
    /\ Insert("a", pos, v, NoFail)
    /\ itv' = Aged(IF pos.node # Null /\ pos.node = head["a"]
                   THEN "insert_begin" ELSE "other")
    /\ Ghost

ItErase(pos) ==
    /\ Erase("a", pos)
    /\ itv' = Aged(IF pos.node # Null /\ pos.node = head["a"]
                   THEN "erase_begin" ELSE "other")
    /\ Ghost

IterResult(op, o) ==
    [op |-> op, l |-> "a", pos |-> it, v |-> 0,
     exc |-> o.exc, ret |-> NoIt, val |-> o.val, uaf |-> o.uaf]

Heap == <<data, next, prev, allocated, head, count, alive>>

\* it = a.begin()
ItBegin ==
    /\ it' = begin(St(NoFail), "a")
    /\ itv' = Fresh("begin")
    /\ res' = IterResult("begin", Outcome(it, "none", 0, FALSE))
    /\ UNCHANGED Heap /\ Ghost

\* it = a.end()
ItEnd ==
    /\ it' = end(St(NoFail), "a")
    /\ itv' = Fresh("end")
    /\ res' = IterResult("end", Outcome(it, "none", 0, FALSE))
    /\ UNCHANGED Heap /\ Ghost

\* it = a.insert(..) or it = a.erase(..): the client keeps the iterator returned
ItRet ==
    /\ res.op \in {"insert", "erase"} /\ res.exc = "none"
    /\ it' = res.ret
    /\ itv' = Fresh("ret")
    /\ res' = IterResult("ret", Outcome(it, "none", 0, FALSE))
    /\ UNCHANGED Heap /\ Ghost

\* *it
ItDeref ==
    /\ itv.src \notin {"none", "wild"}
    /\ \E o \in iterator_deref(it) :
          /\ it' = o.it
          /\ res' = IterResult("deref", o)
          /\ itv' = IF o.uaf THEN Fresh("wild") ELSE itv
    /\ UNCHANGED Heap /\ Ghost

\* ++it
ItInc ==
    /\ itv.src \notin {"none", "wild"}
    /\ \E o \in iterator_inc(it) :
          /\ it' = o.it
          /\ res' = IterResult("inc", o)
          /\ itv' = IF o.uaf THEN Fresh("wild")
                    ELSE IF o.exc # "none" THEN itv
                    ELSE IF itv.src = "begin" /\ itv.mut = ""
                         THEN [itv EXCEPT !.steps = Min(@ + 1, MaxIterLen + 1)]
                    ELSE [itv EXCEPT !.src = "moved"]
    /\ UNCHANGED Heap /\ Ghost

\* --it
ItDec ==
    /\ itv.src \notin {"none", "wild"}
    /\ \E o \in iterator_dec(it) :
          /\ it' = o.it
          /\ res' = IterResult("dec", o)
          /\ itv' = IF o.uaf THEN Fresh("wild")
                    ELSE IF o.exc # "none" THEN itv
                    ELSE [itv EXCEPT !.src = "moved", !.steps = 0]
    /\ UNCHANGED Heap /\ Ghost

NextIter ==
    \/ \E v \in Values : ItPushBack(v)
    \/ \E v \in Values : ItPushFront(v)
    \/ ItPopBack
    \/ ItPopFront
    \/ \E v \in Values : \E pos \in Positions("a") : ItInsert(pos, v)
    \/ \E pos \in Positions("a") : ItErase(pos)
    \/ ItBegin
    \/ ItEnd
    \/ ItRet
    \/ ItDeref
    \/ ItInc
    \/ ItDec

SpecIter == Init /\ [][NextIter]_vars

\* ----------------------------- a client with an iterator and a const_iterator
\* The client keeps an iterator (it) and a const_iterator (ref[1]) of list a,
\* obtains both at the same place and applies every operator to both, the
\* iterator first.  An out_of_range of the first does not keep the client
\* from applying the operator to the second.
cit == IF ref = <<>> THEN const_iterator(Null, Null) ELSE ref[1]

\* it = a.begin(); cit = a.cbegin()
BothBegin ==
    /\ it' = begin(St(NoFail), "a")
    /\ ref' = <<cbegin(St(NoFail), "a")>>
    /\ itv' = Fresh("begin")
    /\ res' = IterResult("begin", Outcome(it, "none", 0, FALSE))
    /\ UNCHANGED <<Heap, pushes, pops>>

\* it = a.end(); cit = a.cend()
BothEnd ==
    /\ it' = end(St(NoFail), "a")
    /\ ref' = <<cend(St(NoFail), "a")>>
    /\ itv' = Fresh("end")
    /\ res' = IterResult("end", Outcome(it, "none", 0, FALSE))
    /\ UNCHANGED <<Heap, pushes, pops>>

\* res records the outcome of the iterator; res.ret, res.v and res.l the
\* const_iterator left, the value read and the exception thrown by the
\* const_iterator
BothResult(op, o, c) ==
    [op |-> op, l |-> c.exc, pos |-> it, v |-> c.val,
     exc |-> o.exc, ret |-> c.it, val |-> o.val, uaf |-> o.uaf \/ c.uaf]

Both(op, os, cs) ==
    /\ \E o \in os, c \in cs :
          /\ it' = o.it
          /\ ref' = <<c.it>>
          /\ res' = BothResult(op, o, c)
          /\ itv' = IF o.uaf \/ c.uaf THEN Fresh("wild")
                    ELSE IF o.exc # "none" \/ op = "deref" THEN itv
                    ELSE [itv EXCEPT !.src = "moved", !.steps = 0]
    /\ UNCHANGED <<Heap, pushes, pops>>

\* *it; *cit
BothDeref ==
    /\ itv.src \notin {"none", "wild"}
    /\ Both("deref", iterator_deref(it), const_iterator_deref(cit))

\* ++it; ++cit
BothInc ==
    /\ itv.src \notin {"none", "wild"}
    /\ Both("inc", iterator_inc(it), const_iterator_inc(cit))

\* --it; --cit
BothDec ==
    /\ itv.src \notin {"none", "wild"}
    /\ Both("dec", iterator_dec(it), const_iterator_dec(cit))

NextBoth ==
    \/ \E v \in Values : ItPushBack(v)
    \/ ItPopBack
    \/ ItPopFront
    \/ BothBegin
    \/ BothEnd
    \/ BothDeref
    \/ BothInc
    \/ BothDec

SpecBoth == Init /\ [][NextBoth]_vars

\* ------------------------------------------- a client with a reverse iterator
\* The client keeps one reverse iterator of list a; `it` is the iterator held
\* inside it (its member current).  itv.src tells whether it is a
\* reverse_iterator ("rbegin") or a const_reverse_iterator ("crbegin"), and
\* itv.steps counts its increments.
RvPushBack(v) ==
    /\ count["a"] < MaxRevLen
    /\ PushBack("a", v, NoFail) /\ itv' = Aged("other") /\ Ghost

RvPopFront == PopFront("a") /\ itv' = Aged("pop_front") /\ Ghost

\* rit = a.rbegin()
ItRBegin ==
    /\ it' = rbegin(St(NoFail), "a").current
    /\ itv' = Fresh("rbegin")
    /\ res' = IterResult("rbegin", Outcome(it, "none", 0, FALSE))
    /\ UNCHANGED Heap /\ Ghost

\* rit = a.crbegin()
ItCRBegin ==
    /\ it' = crbegin(St(NoFail), "a").current
    /\ itv' = Fresh("crbegin")
    /\ res' = IterResult("crbegin", Outcome(it, "none", 0, FALSE))
    /\ UNCHANGED Heap /\ Ghost

Stepped(o) ==
    IF o.uaf THEN Fresh("wild")
    ELSE IF o.exc # "none" THEN itv
    ELSE [itv EXCEPT !.steps = Min(@ + 1, MaxRevLen + 1)]

\* *rit
RevDeref ==
    /\ itv.src = "rbegin"
    /\ \E o \in reverse_iterator_deref(reverse_iterator(it)) :
          /\ it' = o.it
          /\ res' = IterResult("rderef", o)
          /\ itv' = IF o.uaf THEN Fresh("wild") ELSE itv
    /\ UNCHANGED Heap /\ Ghost

\* ++rit
RevInc ==
    /\ itv.src = "rbegin"
    /\ \E o \in reverse_iterator_inc(reverse_iterator(it)) :
          /\ it' = o.it
          /\ res' = IterResult("rinc", o)
          /\ itv' = Stepped(o)
    /\ UNCHANGED Heap /\ Ghost

\* *rit, rit a const_reverse_iterator
CRevDeref ==
    /\ itv.src = "crbegin"
    /\ \E o \in const_reverse_iterator_deref(reverse_iterator(it)) :
          /\ it' = o.it
          /\ res' = IterResult("crderef", o)
          /\ itv' = IF o.uaf THEN Fresh("wild") ELSE itv
    /\ UNCHANGED Heap /\ Ghost

\* ++rit, rit a const_reverse_iterator
CRevInc ==
    /\ itv.src = "crbegin"
    /\ \E o \in const_reverse_iterator_inc(reverse_iterator(it)) :
          /\ it' = o.it
          /\ res' = IterResult("crinc", o)
          /\ itv' = Stepped(o)
    /\ UNCHANGED Heap /\ Ghost

NextRev ==
    \/ \E v \in Values : RvPushBack(v)
    \/ RvPopFront
    \/ ItRBegin
    \/ ItCRBegin
    \/ RevDeref
    \/ RevInc
    \/ CRevDeref
    \/ CRevInc

SpecRev == Init /\ [][NextRev]_vars

\* ================================================================== claims
Other(l) == CHOOSE o \in Lists : o # l

\* where node n stands in the sequence of nodes w (0 when it is not in it)
IndexOf(w, n) ==
    IF \E i \in 1..Len(w) : w[i] = n
    THEN CHOOSE i \in 1..Len(w) : w[i] = n ELSE 0

\* ---- C1
\* C1: after every sequence of push_back, push_front, pop_back and pop_front
\* on an initially empty list, the values read by following next from head
\* for count steps are the reference sequence kept by append / prepend /
\* remove-last / remove-first; size() is the number of pushes minus the number
\* of pops that did not throw, front() is the first element of the reference
\* and back() its last (both throw when the reference is empty).
C1_DequeMatchesReference ==
    /\ ValueSeq("a") = ref
    /\ size(St(NoFail), "a") = pushes - pops
    /\ size(St(NoFail), "a") = Len(ref)
    /\ IF ref = <<>>
       THEN /\ front(St(NoFail), "a").exc = "out_of_range"
            /\ back(St(NoFail), "a").exc = "out_of_range"
       ELSE /\ front(St(NoFail), "a").exc = "none"
            /\ front(St(NoFail), "a").val = ref[1]
            /\ back(St(NoFail), "a").exc = "none"
            /\ back(St(NoFail), "a").val = ref[Len(ref)]

\* a list of two different values left by pushes at both ends and a pop
C1_Witness ==
    /\ res.op = "pop_back" /\ res.exc = "none"
    /\ pushes = 3 /\ pops = 1
    /\ ref = <<2, 1>>
    /\ ValueSeq("a") = <<2, 1>>

\* ---- C2
\* C2: in every state reached by the public operations, a list with
\* count >= 1 has a ring in which following next from head comes back to head
\* for the first time after exactly count steps: the count nodes met are live
\* and pairwise different, and the next of the last one is head.
RingClosed(l) ==
    count[l] >= 1 =>
        LET w == NodeSeq(l)
        IN  /\ head[l] # Null
            /\ Range(w) \subseteq allocated
            /\ Cardinality(Range(w)) = count[l]
            /\ next[w[count[l]]] = head[l]

C2_RingHasCountNodes == \A l \in AllLists : RingClosed(l)

\* a ring of two nodes, just after erase unlinked a node from a ring of three
C2_Witness ==
    \E l \in Lists :
        /\ count[l] = 2
        /\ res.op = "erase" /\ res.exc = "none" /\ res.l = l
        /\ next[head[l]] # head[l]
        /\ next[next[head[l]]] = head[l]

\* ---- C3
\* C3: in every state reached by the public operations, head is null exactly
\* when count is 0; a pop_back, pop_front or erase that leaves count 0 leaves
\* head null, and after a move construction or a move assignment from another
\* list the source has head null and count 0.
MovedFrom ==
    (/\ res.exc = "none"
     /\ \/ res.op = "move_ctor"
        \/ res.op = "move_assign" /\ res.v = 0)
    => (head[Other(res.l)] = Null /\ count[Other(res.l)] = 0)

C3_HeadNullIffEmpty ==
    /\ \A l \in AllLists : (head[l] = Null) <=> (count[l] = 0)
    /\ MovedFrom

\* a move assignment has just emptied its source of two nodes
C3_Witness ==
    /\ res.op = "move_assign" /\ res.v = 0 /\ res.exc = "none"
    /\ count[res.l] = 2 /\ head[res.l] # Null
    /\ head[Other(res.l)] = Null

\* ---- C4
\* C4: a traversal that starts at begin() and increments the iterator while
\* it differs from end() has, after as many increments as the list has
\* elements, an iterator equal to end() (and so stops there).
C4_TraversalReachesEnd ==
    (itv.src = "begin" /\ itv.mut = "" /\ itv.steps = count["a"])
    => iterator_eq(it, end(St(NoFail), "a"))

\* ---- C5
\* C5: a push_back, push_front, pop_back, pop_front, insert or erase that does
\* not remove the node an iterator references leaves the iterator as it was,
\* its node a live member of the ring with the same value, so that *it gives
\* that value and ++it / --it lead to the node's current next / prev, both
\* live members of the ring.
Mutators == {"push_back", "push_front", "pop_back", "pop_front", "insert", "erase"}

OnLiveNode(i) == i.node # Null /\ i.node \in allocated

C5_Step ==
    (/\ res'.op \in Mutators /\ res'.exc = "none"
     /\ itv.src \notin {"none", "wild"}
     /\ OnLiveNode(it)
     /\ it.node \in allocated')
    => /\ it' = it
       /\ it.node \in Range(NodeSeqNext("a"))
       /\ data'[it.node] = data[it.node]
       /\ next'[it.node] \in Range(NodeSeqNext("a"))
       /\ prev'[it.node] \in Range(NodeSeqNext("a"))
       /\ iterator_deref(it)' = {Outcome(it, "none", data[it.node], FALSE)}
       /\ iterator_inc(it)' =
             {Outcome(iterator(next'[it.node], it.head), "none", 0, FALSE)}
       /\ iterator_dec(it)' =
             {Outcome(iterator(prev'[it.node], it.head), "none", 0, FALSE)}

C5_IteratorSurvivesMutation == [][C5_Step]_vars

\* the iterator is on a live node although the head it was obtained with has
\* been removed by pop_front since
C5_Witness ==
    /\ itv.src = "moved" /\ itv.mut = "pop_front"
    /\ OnLiveNode(it)
    /\ it.head \notin allocated
    /\ count["a"] = 1

\* ---- C6
\* C6: decrementing an end() iterator obtained before a push_front or an
\* insert at begin() moves it to the list's current logical back node, the
\* node before the current head.
C6_Step ==
    (/\ res'.op = "dec"
     /\ itv.src = "end" /\ itv.mut \in {"push_front", "insert_begin"})
    => /\ res'.exc = "none" /\ ~res'.uaf
       /\ it'.node = prev[head["a"]]

C6_EndSurvivesPushFront == [][C6_Step]_vars

\* ---- C7
\* C7: no operation on an iterator obtained by begin() or end() reads a node
\* that has been destroyed, provided the node the iterator itself references
\* was not erased (an end iterator references no node) and the list is not
\* empty; in particular decrementing an end() obtained before a pop_front or
\* an erase(begin()) does not.
C7_Step ==
    (/\ res'.op \in {"deref", "inc", "dec"}
     /\ itv.src \in {"begin", "end", "moved"}
     /\ (it.node = Null \/ it.node \in allocated)
     /\ count["a"] >= 1)
    => ~res'.uaf

C7_NoReadOfDestroyedNode == [][C7_Step]_vars

\* ---- C8
\* C8: front(), back(), pop_front() and pop_back() throw std::out_of_range
\* exactly when the list is empty, and then leave it as it was: head null,
\* count 0, no node touched.
EmptyChecked == {"front", "back", "pop_front", "pop_back"}

C8_Step ==
    res'.op \in EmptyChecked
    => /\ (count[res'.l] = 0) <=> (res'.exc = "out_of_range")
       /\ res'.exc \in {"none", "out_of_range"}
       /\ count[res'.l] = 0
          => /\ UNCHANGED <<data, next, prev, allocated, head, count>>
             /\ head'[res'.l] = Null /\ count'[res'.l] = 0

C8_EmptyAccessThrows == [][C8_Step]_vars

\* pop_back has just thrown on a list emptied by earlier pops
C8_Witness ==
    /\ res.op = "pop_back" /\ res.exc = "out_of_range"
    /\ count["a"] = 0 /\ head["a"] = Null

\* ---- C9
\* C9: erase on an empty list throws std::out_of_range for every position; on
\* a non-empty list erase of the end sentinel throws std::invalid_argument;
\* in both cases head, count and the nodes are left as they were; erase of a
\* position on a node of a non-empty list does not throw.
C9_Step ==
    res'.op = "erase"
    => /\ count[res'.l] = 0 => res'.exc = "out_of_range"
       /\ (count[res'.l] # 0 /\ res'.pos.node = Null)
          => res'.exc = "invalid_argument"
       /\ (count[res'.l] # 0 /\ res'.pos.node # Null) => res'.exc = "none"
       /\ res'.exc # "none"
          => UNCHANGED <<data, next, prev, allocated, head, count>>

C9_EraseErrors == [][C9_Step]_vars

\* erase(end()) has just thrown on a list of two elements
C9_Witness ==
    /\ res.op = "erase" /\ res.exc = "invalid_argument"
    /\ res.pos.node = Null
    /\ count["a"] = 2

\* ---- C10
\* C10: insert(position, value) with position on a node of the list puts a
\* new node immediately before that node, keeps the order, identity and
\* values of all other nodes, adds exactly 1 to size(), makes the new node the
\* head exactly when position was on the head, and returns an iterator on the
\* new node, through which the value is read.
C10_Step ==
    (res'.op = "insert" /\ res'.exc = "none" /\ res'.pos.node # Null)
    => LET l == res'.l
           old == NodeSeq(l)
           new == NodeSeqNext(l)
           k == IndexOf(old, res'.pos.node)
           n == res'.ret.node
       IN  /\ k >= 1
           /\ n \in allocated' \ allocated
           /\ new = SubSeq(old, 1, k - 1) \o <<n>> \o SubSeq(old, k, Len(old))
           /\ count'[l] = size(St(NoFail), l) + 1
           /\ \A m \in allocated : data'[m] = data[m]
           /\ (head'[l] = n) <=> (res'.pos.node = head[l])
           /\ res'.pos.node # head[l] => head'[l] = head[l]
           /\ res'.ret.head = head'[l]
           /\ data'[n] = res'.v

C10_InsertBeforePosition == [][C10_Step]_vars

\* insert has just put a node between the head and the back of a list of two
C10_Witness ==
    /\ res.op = "insert" /\ res.exc = "none"
    /\ res.pos.node # Null
    /\ count["a"] = 3
    /\ res.ret.node = next[head["a"]]
    /\ res.pos.node = prev[head["a"]]

\* ---- C11
\* C11: insert(end(), v) leaves the list exactly as push_back(v) leaves it
\* (same nodes in the same order, same head, same size) and returns an
\* iterator on the new back node; insert(begin(), v) leaves it exactly as
\* push_front(v) leaves it and returns an iterator on the new front node; both
\* also on an empty list.
SameStore(S) ==
    /\ data' = S.data /\ next' = S.next /\ prev' = S.prev
    /\ allocated' = S.allocated /\ head' = S.head /\ count' = S.count

C11_Step ==
    \A l \in Lists :
      (res'.op = "insert" /\ res'.l = l /\ res'.exc = "none")
      => /\ res'.pos = end(St(NoFail), l)
            => /\ SameStore(push_back(St(NoFail), l, res'.v))
               /\ res'.ret.node = prev'[head'[l]]
               /\ data'[res'.ret.node] = res'.v
               /\ ValueSeqNext(l) = Append(ValueSeq(l), res'.v)
               /\ count[l] >= 1 => head'[l] = head[l]
         /\ res'.pos = begin(St(NoFail), l)
            => /\ SameStore(push_front(St(NoFail), l, res'.v))
               /\ res'.ret.node = head'[l]
               /\ data'[res'.ret.node] = res'.v
               /\ ValueSeqNext(l) = <<res'.v>> \o ValueSeq(l)

C11_InsertAtEndsIsPush == [][C11_Step]_vars

\* insert(end(), 2) has just been done on the list <<1, 1>>
C11_Witness ==
    /\ res.op = "insert" /\ res.exc = "none"
    /\ res.pos = iterator(Null, head["a"])
    /\ res.v = 2
    /\ ValueSeq("a") = <<1, 1, 2>>
    /\ res.ret.node = prev[head["a"]]

\* ---- C12
\* C12: erase(position) with position on a node of a non-empty list removes
\* exactly that node, keeps the order, identity and values of the others,
\* takes exactly 1 from size(), moves head to the following node when the
\* node removed was the head, and returns an iterator on the node that
\* followed the removed one front to back, or the end sentinel when the node
\* removed was the back.
C12_Step ==
    \A l \in Lists :
      (res'.op = "erase" /\ res'.l = l /\ res'.exc = "none")
      => LET old == NodeSeq(l)
             new == NodeSeqNext(l)
             k == IndexOf(old, res'.pos.node)
         IN  /\ k >= 1
             /\ allocated' = allocated \ {res'.pos.node}
             /\ new = SubSeq(old, 1, k - 1) \o SubSeq(old, k + 1, Len(old))
             /\ count'[l] = size(St(NoFail), l) - 1
             /\ \A m \in allocated' : data'[m] = data[m]
             /\ k = 1 => head'[l] = IF Len(old) = 1 THEN Null ELSE old[2]
             /\ k > 1 => head'[l] = head[l]
             /\ res'.ret.node = IF k = Len(old) THEN Null ELSE old[k + 1]

C12_EraseRemovesNode == [][C12_Step]_vars

\* erase has just removed the middle node of a list of three
C12_Witness ==
    /\ res.op = "erase" /\ res.exc = "none"
    /\ count["a"] = 2
    /\ res.pos.node \notin allocated
    /\ res.pos.node # res.pos.head
    /\ res.ret.node = prev[head["a"]]
    /\ res.ret.node # Null /\ res.ret.node # head["a"]

\* ---- C13
\* C13: begin() == end() exactly when the list is empty: it holds for a newly
\* constructed list and after the last remaining element was erased or popped
\* (which leaves head null and count 0), for no list with an element; the
\* same for cbegin()/cend(), rbegin()/rend() and crbegin()/crend().
BeginIsEnd(l) ==
    LET S == St(NoFail)
    IN  /\ iterator_eq(begin(S, l), end(S, l)) <=> empty(S, l)
        /\ ~iterator_ne(begin(S, l), end(S, l)) <=> empty(S, l)
        /\ const_iterator_eq(begin_const(S, l), end_const(S, l)) <=> empty(S, l)
        /\ const_iterator_eq(cbegin(S, l), cend(S, l)) <=> empty(S, l)
        /\ ~const_iterator_ne(cbegin(S, l), cend(S, l)) <=> empty(S, l)
        /\ reverse_iterator_eq(rbegin(S, l), rend(S, l)) <=> empty(S, l)
        /\ const_reverse_iterator_eq(rbegin_const(S, l), rend_const(S, l))
              <=> empty(S, l)
        /\ const_reverse_iterator_eq(crbegin(S, l), crend(S, l)) <=> empty(S, l)

Removers == {"erase", "pop_back", "pop_front"}

C13_BeginIsEndIffEmpty ==
    /\ \A l \in Lists : alive[l] => BeginIsEnd(l)
    /\ (res.op \in Removers /\ res.exc = "none" /\ count[res.l] = 0)
       => (head[res.l] = Null /\ size(St(NoFail), res.l) = 0)
    /\ res.op = "default_ctor"
       => iterator_eq(begin(St(NoFail), res.l), end(St(NoFail), res.l))

\* erase has just removed the only element of a list: begin() == end()
C13_Witness ==
    /\ res.op = "erase" /\ res.exc = "none"
    /\ res.pos.node # Null
    /\ count[res.l] = 0
    /\ iterator_eq(begin(St(NoFail), res.l), end(St(NoFail), res.l))
    /\ reverse_iterator_eq(rbegin(St(NoFail), res.l), rend(St(NoFail), res.l))
    /\ \E o \in Lists : alive[o] /\ count[o] >= 1
          /\ ~iterator_eq(begin(St(NoFail), o), end(St(NoFail), o))

\* ---- C14
\* C14: copy construction of a list (the empty list included) gives a list
\* that compares equal to the source, has its size and its front-to-back
\* values, and shares no node with it; the source is left as it was; and a
\* later change of one of two lists leaves the nodes and the values of the
\* other as they were.
OneListOps == {"push_back", "push_front", "pop_back", "pop_front", "insert",
               "erase", "clear", "assign", "front", "back"}

C14_Step ==
    \A l \in Lists :
      LET o == Other(l)
      IN  /\ (res'.op = "copy_ctor" /\ res'.l = l /\ res'.exc = "none")
             => /\ operator_eq(St(NoFail), l, o)' = Answer("none", TRUE)
                /\ operator_eq(St(NoFail), o, l)' = Answer("none", TRUE)
                /\ operator_ne(St(NoFail), l, o)' = Answer("none", FALSE)
                /\ count'[l] = size(St(NoFail), o)
                /\ ValueSeqNext(l) = ValueSeq(o)
                /\ NodeSeqNext(o) = NodeSeq(o)
                /\ ValueSeqNext(o) = ValueSeq(o)
                /\ head'[o] = head[o] /\ count'[o] = count[o]
                /\ Range(NodeSeqNext(l)) \cap Range(NodeSeqNext(o)) = {}
                /\ Range(NodeSeqNext(l)) \cap allocated = {}
                /\ Range(NodeSeqNext(l)) \subseteq allocated'
          /\ (res'.op \in OneListOps /\ res'.l = l /\ alive[o])
             => /\ NodeSeqNext(o) = NodeSeq(o)
                /\ ValueSeqNext(o) = ValueSeq(o)
                /\ head'[o] = head[o] /\ count'[o] = count[o]
                /\ Range(NodeSeqNext(l)) \cap Range(NodeSeqNext(o)) = {}

C14_CopyIsEqualAndIndependent == [][C14_Step]_vars

\* a list of two different values has just been copied
C14_Witness ==
    /\ res.op = "copy_ctor" /\ res.exc = "none"
    /\ ValueSeq(res.l) = <<1, 2>>
    /\ ValueSeq(Other(res.l)) = <<1, 2>>
    /\ alive[res.l] /\ alive[Other(res.l)]
    /\ Nodes(res.l) \cap Nodes(Other(res.l)) = {}

\* ---- C15
\* C15: when an allocation fails during copy construction, at the first node
\* or at a later one, every node already made for the new list is released
\* (the live nodes are those of before, the new list has head null and
\* count 0), std::bad_alloc reaches the caller, and the source list is as it
\* was.
Untouched(S) ==
    /\ S.allocated = allocated
    /\ \A n \in allocated :
          S.data[n] = data[n] /\ S.next[n] = next[n] /\ S.prev[n] = prev[n]

C15_Failing(l, o, b) ==
    LET S == copy_ctor(St(b), l, o)
    IN  /\ S.exc = "bad_alloc"
        /\ Untouched(S)
        /\ S.head[l] = Null /\ S.count[l] = 0
        /\ S.head[o] = head[o] /\ S.count[o] = count[o]

C15_Step ==
    \A l \in Lists :
      LET o == Other(l)
      IN  /\ (~alive[l] /\ alive[o])
             => \A b \in 0..MaxFail :
                   (b < count[o] /\ Room(St(b), count[o], b))
                   => C15_Failing(l, o, b)
          /\ (res'.op = "copy_ctor" /\ res'.l = l /\ res'.exc # "none")
             => /\ res'.exc = "bad_alloc"
                /\ allocated' = allocated
                /\ head'[l] = Null /\ count'[l] = 0 /\ ~alive'[l]
                /\ NodeSeqNext(o) = NodeSeq(o)
                /\ ValueSeqNext(o) = ValueSeq(o)
                /\ head'[o] = head[o] /\ count'[o] = count[o]
                /\ \A n \in allocated :
                      /\ data'[n] = data[n]
                      /\ next'[n] = next[n] /\ prev'[n] = prev[n]

C15_FailedCopyReleasesNodes == [][C15_Step]_vars

\* the copy of a list of two elements has just failed, its nodes are the
\* only live ones
C15_Witness ==
    /\ res.op = "copy_ctor" /\ res.exc = "bad_alloc"
    /\ ~alive[res.l]
    /\ count[Other(res.l)] = 2
    /\ allocated = Nodes(Other(res.l))

\* ---- C16
\* C16: copy assignment a = b makes a equal to b and leaves b as it was, the
\* nodes a held before are released and every live node belongs to a or b;
\* when the copy throws (an allocation fails while the temporary is built) a
\* keeps its nodes, its sequence and its size, and no node stays allocated
\* beyond those of before.
C16_Step ==
    \A l \in Lists :
      LET o == Other(l)
      IN  (res'.op = "copy_assign" /\ res'.l = l /\ res'.v = 0)
          => /\ res'.exc \in {"none", "bad_alloc"}
             /\ NodeSeqNext(o) = NodeSeq(o)
             /\ ValueSeqNext(o) = ValueSeq(o)
             /\ head'[o] = head[o] /\ count'[o] = count[o]
             /\ head'[Tmp] = Null /\ count'[Tmp] = 0
             /\ allocated' = Range(NodeSeqNext(l)) \cup Range(NodeSeqNext(o))
             /\ res'.exc = "none"
                => /\ operator_eq(St(NoFail), l, o)' = Answer("none", TRUE)
                   /\ ValueSeqNext(l) = ValueSeq(o)
                   /\ count'[l] = count[o]
                   /\ Range(NodeSeqNext(l)) \cap allocated = {}
                   /\ Range(NodeSeqNext(l)) \cap Range(NodeSeqNext(o)) = {}
             /\ res'.exc = "bad_alloc"
                => /\ NodeSeqNext(l) = NodeSeq(l)
                   /\ ValueSeqNext(l) = ValueSeq(l)
                   /\ head'[l] = head[l] /\ count'[l] = count[l]
                   /\ allocated' = allocated
                   /\ \A n \in allocated :
                         /\ data'[n] = data[n]
                         /\ next'[n] = next[n] /\ prev'[n] = prev[n]

C16_CopyAssignKeepsOriginalOnThrow == [][C16_Step]_vars

\* a = b has just thrown while the temporary was built: a still holds its
\* value 1, b its values 2, 2, and no other node is live
C16_Witness ==
    /\ res.op = "copy_assign" /\ res.exc = "bad_alloc" /\ res.v = 0
    /\ ValueSeq(res.l) = <<1>>
    /\ ValueSeq(Other(res.l)) = <<2, 2>>
    /\ Cardinality(allocated) = 3

\* ---- C17
\* C17: move construction and move assignment from another list leave the
\* source empty (head null, size() 0, empty() true) and the destination with
\* the ring the source had: the same nodes in the same order, the same head,
\* values and size, no node allocated, no field of those nodes written; move
\* assignment also releases every node the destination held before.
C17_Step ==
    \A l \in Lists :
      LET o == Other(l)
      IN  (/\ res'.l = l
           /\ \/ res'.op = "move_ctor"
              \/ res'.op = "move_assign" /\ res'.v = 0)
          => /\ res'.exc = "none"
             /\ head'[o] = Null
             /\ size(St(NoFail), o)' = 0
             /\ empty(St(NoFail), o)'
             /\ head'[l] = head[o]
             /\ size(St(NoFail), l)' = size(St(NoFail), o)
             /\ NodeSeqNext(l) = NodeSeq(o)
             /\ ValueSeqNext(l) = ValueSeq(o)
             /\ allocated' \subseteq allocated
             /\ \A n \in Nodes(o) :
                   /\ n \in allocated'
                   /\ data'[n] = data[n]
                   /\ next'[n] = next[n] /\ prev'[n] = prev[n]
             /\ res'.op = "move_ctor"
                => UNCHANGED <<data, next, prev, allocated>>
             /\ res'.op = "move_assign"
                => /\ allocated' = allocated \ Nodes(l)
                   /\ Nodes(l) \cap allocated' = {}

C17_MoveTakesTheRing == [][C17_Step]_vars

\* a move assignment has just handed a ring of two nodes to the destination;
\* the node allocated first is no longer live
C17_Witness ==
    /\ res.op = "move_assign" /\ res.v = 0 /\ res.exc = "none"
    /\ ValueSeq(res.l) = <<1, 2>>
    /\ count[Other(res.l)] = 0 /\ head[Other(res.l)] = Null
    /\ allocated = Nodes(res.l)
    /\ 1 \notin allocated

\* ---- C18
\* C18: self copy-assignment (a = a) and self move-assignment
\* (a = std::move(a)) do nothing: head, count, the nodes and their fields stay
\* as they were, no node is allocated or released, nothing is thrown.
C18_Step ==
    (res'.op \in {"copy_assign", "move_assign"} /\ res'.v = 1)
    => /\ res'.exc = "none"
       /\ UNCHANGED <<data, next, prev, allocated, head, count>>
       /\ NodeSeqNext(res'.l) = NodeSeq(res'.l)
       /\ ValueSeqNext(res'.l) = ValueSeq(res'.l)

C18_SelfAssignIsNoOp == [][C18_Step]_vars

\* a list of two elements has just been move-assigned to itself
C18_Witness ==
    /\ res.op = "move_assign" /\ res.v = 1 /\ res.exc = "none"
    /\ ValueSeq(res.l) = <<2, 1>>
    /\ Nodes(res.l) \subseteq allocated

\* ---- C19
\* C19: after a.swap(b), a holds the ring b had (head, nodes, sequence, size)
\* and b the ring a had, for all pairs of lists, empty ones included; no node
\* is made, deleted or written; a second swap gives back the lists of before
\* the first.
C19_Step ==
    \A l \in Lists :
      LET o == IF res'.v = 1 THEN l ELSE Other(l)
      IN  (res'.op = "swap" /\ res'.l = l)
          => /\ res'.exc = "none"
             /\ head'[l] = head[o] /\ head'[o] = head[l]
             /\ count'[l] = count[o] /\ count'[o] = count[l]
             /\ NodeSeqNext(l) = NodeSeq(o) /\ NodeSeqNext(o) = NodeSeq(l)
             /\ ValueSeqNext(l) = ValueSeq(o) /\ ValueSeqNext(o) = ValueSeq(l)
             /\ UNCHANGED <<data, next, prev, allocated>>
             /\ swap(St(NoFail), l, Other(l))'.head = head
                   \/ res'.v = 1
             /\ swap(St(NoFail), l, Other(l))'.count = count
                   \/ res'.v = 1
             /\ swap(swap(St(NoFail), l, Other(l)), l, Other(l)) = St(NoFail)

C19_SwapExchangesRings == [][C19_Step]_vars

\* a.swap(b) has just given a the single node of b, allocated third, and b
\* the two nodes of a
C19_Witness ==
    /\ res.op = "swap" /\ res.v = 0 /\ res.l = "a"
    /\ ValueSeq("a") = <<1>>
    /\ ValueSeq("b") = <<2, 2>>
    /\ head["a"] = 3 /\ head["b"] = 1

\* ---- C20
\* C20: for all pairs of lists a and b, a == b is true exactly when they
\* have the same size and the same value at every position front to back
\* (two empty lists are equal); a != b is its negation; neither throws, and
\* the loop of the comparison ends after at most size() rounds.
SameValues(l, o) ==
    /\ count[l] = count[o]
    /\ \A i \in 1..count[l] : data[NodeSeq(l)[i]] = data[NodeSeq(o)[i]]

C20_EqualityIsPointwise ==
    /\ \A l \in Lists, o \in Lists :
          (alive[l] /\ alive[o])
          => /\ operator_eq(St(NoFail), l, o) = Answer("none", SameValues(l, o))
             /\ operator_ne(St(NoFail), l, o) = Answer("none", ~SameValues(l, o))
    /\ res.op \in {"eq", "ne"}
       => LET o == IF res.v = 1 THEN res.l ELSE Other(res.l)
          IN  /\ res.exc = "none"
              /\ (res.val = 1) <=> ((res.op = "eq") <=> SameValues(res.l, o))

\* two lists of the same size that differ at the last position only have
\* just been compared: a == b gave false
C20_Witness ==
    /\ res.op = "eq" /\ res.v = 0 /\ res.val = 0 /\ res.exc = "none"
    /\ ValueSeq(res.l) = <<1, 2>>
    /\ ValueSeq(Other(res.l)) = <<1, 1>>

\* ---- C21
\* C21: for all pairs of lists a and b of ints, a < b is the lexicographic
\* less-than of their front-to-back sequences: the first position where the
\* values differ decides, and when there is none the shorter list is the
\* lesser; an empty list is less than every list with an element and not
\* less than an empty one (so [] < [1] < [1,2] < [2]).
RECURSIVE LexLess(_, _)
LexLess(s, t) ==
    IF t = <<>> THEN FALSE
    ELSE IF s = <<>> THEN TRUE
    ELSE IF Head(s) < Head(t) THEN TRUE
    ELSE IF Head(t) < Head(s) THEN FALSE
    ELSE LexLess(Tail(s), Tail(t))

C21_LessIsLexicographic ==
    /\ \A l \in Lists, o \in Lists :
          (alive[l] /\ alive[o])
          => operator_lt(St(NoFail), l, o)
                = Answer("none", LexLess(ValueSeq(l), ValueSeq(o)))
    /\ res.op = "lt"
       => LET o == IF res.v = 1 THEN res.l ELSE Other(res.l)
          IN  /\ res.exc = "none"
              /\ (res.val = 1) <=> LexLess(ValueSeq(res.l), ValueSeq(o))
    /\ LexLess(<<>>, <<1>>) /\ LexLess(<<1>>, <<1, 2>>) /\ LexLess(<<1, 2>>, <<2>>)
    /\ ~LexLess(<<>>, <<>>)

\* [1, 2] < [2] has just been found true: the first elements decide, although
\* the left list is the longer one
C21_Witness ==
    /\ res.op = "lt" /\ res.v = 0 /\ res.val = 1 /\ res.exc = "none"
    /\ ValueSeq(res.l) = <<1, 2>>
    /\ ValueSeq(Other(res.l)) = <<2>>

\* ---- C22
\* C22: a reverse traversal that starts at rbegin() and increments the
\* reverse iterator, the list not being changed meanwhile, reads the elements
\* back to front (the first dereference gives back()) and is equal to rend()
\* after exactly size() increments, not before; the same for crbegin() and
\* crend().
Traversing == itv.src \in {"rbegin", "crbegin"} /\ itv.mut = ""

C22_Step ==
    LET S == St(NoFail)
        k == itv.steps
        n == count["a"]
    IN  (Traversing /\ k <= n)
        => /\ itv.src = "rbegin"
              => (reverse_iterator_eq(reverse_iterator(it), rend(S, "a"))
                    <=> k = size(S, "a"))
           /\ itv.src = "crbegin"
              => (const_reverse_iterator_eq(reverse_iterator(it), crend(S, "a"))
                    <=> k = size(S, "a"))
           /\ (res'.op \in {"rderef", "crderef"} /\ k < n)
              => /\ res'.exc = "none" /\ ~res'.uaf
                 /\ res'.val = ValueSeq("a")[n - k]
                 /\ k = 0 => res'.val = back(S, "a").val
                 /\ it' = it
           /\ (res'.op \in {"rinc", "crinc"} /\ k < n)
              => /\ res'.exc = "none" /\ ~res'.uaf
                 /\ it'.node = NodeSeq("a")[n - k]

C22_ReverseTraversal == [][C22_Step]_vars

\* a reverse iterator has been incremented three times over a list of three
\* and is equal to rend()
C22_Witness ==
    /\ itv.src = "rbegin" /\ itv.mut = "" /\ itv.steps = 3
    /\ res.op = "rinc" /\ res.exc = "none"
    /\ ValueSeq("a") = <<1, 2, 1>>
    /\ reverse_iterator_eq(reverse_iterator(it), rend(St(NoFail), "a"))

\* ---- C23
\* C23: dereferencing or incrementing an iterator, mutable or const, that is
\* at the end sentinel throws std::out_of_range and leaves the iterator at the
\* end sentinel; dereferencing or incrementing an iterator on a live node
\* throws nothing.
AtEndThrows(ops) ==
    ops = {Outcome(it, "out_of_range", 0, FALSE)}

OnNodeSucceeds(ops) ==
    \A o \in ops : o.exc = "none" /\ ~o.uaf

C23_Step ==
    /\ res'.op \in {"deref", "inc"}
       => /\ it.node = Null
             => /\ res'.exc = "out_of_range" /\ ~res'.uaf
                /\ it' = it /\ it'.node = Null
          /\ OnLiveNode(it) => (res'.exc = "none" /\ ~res'.uaf)
    /\ (itv.src \notin {"none", "wild"} /\ it.node = Null)
       => /\ AtEndThrows(iterator_deref(it))
          /\ AtEndThrows(iterator_inc(it))
          /\ AtEndThrows(const_iterator_deref(it))
          /\ AtEndThrows(const_iterator_inc(it))
    /\ (itv.src \notin {"none", "wild"} /\ OnLiveNode(it))
       => /\ OnNodeSucceeds(iterator_deref(it))
          /\ OnNodeSucceeds(iterator_inc(it))
          /\ OnNodeSucceeds(const_iterator_deref(it))
          /\ OnNodeSucceeds(const_iterator_inc(it))

C23_EndIteratorThrows == [][C23_Step]_vars

\* ++ has just thrown on the end iterator of a list of two elements
C23_Witness ==
    /\ res.op = "inc" /\ res.exc = "out_of_range"
    /\ itv.src = "end" /\ itv.mut = ""
    /\ it = end(St(NoFail), "a")
    /\ count["a"] = 2

\* ---- C24
\* C24: decrementing an iterator just returned by end() (or cend()) of a
\* non-empty list, the list not being changed in between, moves it to the
\* logical back node, the last node front to back, so that dereferencing it
\* gives back().
C24_Step ==
    LET S == St(NoFail)
        n == count["a"]
    IN  /\ (/\ res'.op = "dec"
            /\ itv.src = "end" /\ itv.mut = "" /\ n >= 1)
           => /\ it = end(S, "a")
              /\ res'.exc = "none" /\ ~res'.uaf
              /\ it'.node = NodeSeq("a")[n]
              /\ it'.node = prev[head["a"]]
              /\ iterator_deref(it')
                    = {Outcome(it', "none", back(S, "a").val, FALSE)}
        /\ n >= 1
           => \A o \in const_iterator_dec(cend(S, "a")) :
                 /\ o.exc = "none" /\ ~o.uaf
                 /\ o.it.node = NodeSeq("a")[n]
                 /\ const_iterator_deref(o.it)
                       = {Outcome(o.it, "none", back(S, "a").val, FALSE)}

C24_DecrementOfEndIsBack == [][C24_Step]_vars

\* an end() of the list <<1, 2>> has just been decremented, it is on the
\* second node
C24_Witness ==
    /\ res.op = "dec" /\ res.exc = "none"
    /\ res.pos = end(St(NoFail), "a")
    /\ itv.src = "moved" /\ itv.mut = ""
    /\ ValueSeq("a") = <<1, 2>>
    /\ it.node = prev[head["a"]] /\ it.node # head["a"]

\* ---- C25
\* C25: when the list is empty at the time of the decrement, decrementing an
\* end-sentinel iterator of the list throws std::out_of_range and leaves the
\* iterator as it was, whether the iterator was obtained while the list was
\* empty or before it was emptied (the iterator returned by erase of the only
\* element, an end() taken before the last element was removed).
C25_Step ==
    (/\ res'.op = "dec"
     /\ itv.src \in {"end", "ret"}
     /\ it.node = Null
     /\ count["a"] = 0)
    => /\ res'.exc = "out_of_range" /\ ~res'.uaf
       /\ it' = it

C25_DecrementOnEmptyThrows == [][C25_Step]_vars

\* ---- C26
\* C26: for every list state and value x, push_back(x) immediately followed by
\* pop_back() restores the prior size, the prior back value (when the list was
\* not empty), the prior head node and the whole prior front-to-back sequence,
\* nodes and values; on an empty list it restores the empty list.  Nothing
\* else of the heap is changed by it either.
C26_Step ==
    (res'.op = "push_back_pop_back" /\ res'.exc = "none")
    => /\ count'["a"] = count["a"]
       /\ head'["a"] = head["a"]
       /\ NodeSeqNext("a") = NodeSeq("a")
       /\ ValueSeqNext("a") = ValueSeq("a")
       /\ count["a"] >= 1
          => /\ back(St(NoFail), "a")'.exc = "none"
             /\ back(St(NoFail), "a")'.val = back(St(NoFail), "a").val
             /\ prev'[head'["a"]] = prev[head["a"]]
       /\ count["a"] = 0
          => /\ head'["a"] = Null /\ count'["a"] = 0
             /\ back(St(NoFail), "a")'.exc = "out_of_range"
       /\ allocated' = allocated
       /\ \A n \in allocated :
             data'[n] = data[n] /\ next'[n] = next[n] /\ prev'[n] = prev[n]

C26_PushBackPopBackRoundTrip == [][C26_Step]_vars

\* the round trip was made on the list 1, 2 (so the prior back value, 2,
\* differs from the value pushed and from the front) and left 1, 2
C26_Witness ==
    /\ res.op = "push_back_pop_back" /\ res.exc = "none" /\ res.v = 1
    /\ ValueSeq("a") = <<1, 2>>
    /\ back(St(NoFail), "a").val = 2

\* ---- C27
\* C27: clear() on any reachable list terminates without an error and leaves
\* the list empty: head absent, size 0, front() and back() failing with
\* std::out_of_range, every node of its ring released and the other list as
\* it was.  clear() on an already empty list changes nothing and signals no
\* error, so a second clear() is a no-op.
C27_Step ==
    \A l \in Lists :
       (res'.op = "clear" /\ res'.l = l)
       => /\ res'.exc = "none"
          /\ head'[l] = Null /\ count'[l] = 0
          /\ empty(St(NoFail), l)'
          /\ front(St(NoFail), l)'.exc = "out_of_range"
          /\ back(St(NoFail), l)'.exc = "out_of_range"
          /\ allocated' = allocated \ Nodes(l)
          /\ \A o \in Lists \ {l} :
                /\ head'[o] = head[o] /\ count'[o] = count[o]
                /\ \A n \in Nodes(o) :
                      /\ data'[n] = data[n]
                      /\ next'[n] = next[n] /\ prev'[n] = prev[n]
          /\ count[l] = 0 => SameStore(St(NoFail))
          /\ clear(St(NoFail), l)' = St(NoFail)'

C27_ClearEmptiesAndIsIdempotent == [][C27_Step]_vars

\* a.clear() has just emptied a while b holds the node at address 3: the two
\* lower addresses, free now, were in use when b pushed its element
C27_Witness ==
    /\ res.op = "clear" /\ res.l = "a" /\ res.exc = "none"
    /\ alive["a"] /\ count["a"] = 0 /\ head["a"] = Null
    /\ alive["b"] /\ NodeSeq("b") = <<3>>
    /\ allocated = {3}

\* ---- C28
\* C28: assign(n, value) on any reachable list, when no allocation fails,
\* leaves a list of exactly n elements all equal to value, in a closed ring of
\* n distinct nodes; every node of the prior ring was released before the
\* first copy was allocated, so none of them remains in the ring, and nothing
\* but the ring is allocated.  assign(0, value) leaves the list empty with
\* head absent.
C28_Step ==
    (res'.op = "assign" /\ res'.exc = "none")
    => LET n == res'.val
           C == clear(St(NoFail), "a")
       IN  /\ count'["a"] = n
           /\ size(St(NoFail), "a")' = n
           /\ Len(ValueSeqNext("a")) = n
           /\ \A i \in 1..n : ValueSeqNext("a")[i] = res'.v
           /\ Cardinality(Range(NodeSeqNext("a"))) = n
           /\ n >= 1 => /\ next'[NodeSeqNext("a")[n]] = head'["a"]
                        /\ prev'[head'["a"]] = NodeSeqNext("a")[n]
           /\ n = 0 => head'["a"] = Null /\ empty(St(NoFail), "a")'
           /\ C.allocated = allocated \ Nodes("a")
           /\ C.head["a"] = Null /\ C.count["a"] = 0
           /\ Range(NodeSeqNext("a")) \cap C.allocated = {}
           /\ allocated' = C.allocated \cup Range(NodeSeqNext("a"))

C28_AssignReplacesContents == [][C28_Step]_vars

\* assign(2, 2) has just left the list 2, 2 in the two nodes that alone are
\* allocated
C28_Witness ==
    /\ res.op = "assign" /\ res.exc = "none"
    /\ res.val = 2 /\ res.v = 2
    /\ ValueSeq("a") = <<2, 2>>
    /\ allocated = Nodes("a") /\ Cardinality(allocated) = 2

\* ---- C29
\* C29: every node is released exactly once and none leaks.  In every state
\* the allocated nodes are exactly the nodes of the rings of the live lists,
\* each in one ring only (as many allocated nodes as the sizes add up to), and
\* a list that was destroyed holds none.  Every node that the teardown of a
\* live list would delete is allocated at the moment it is deleted, so none
\* is released twice, and the teardown releases the whole ring and nothing
\* else.  A clear() or a destructor step leaves none of the list's nodes
\* allocated, and no step releases a node of a ring that still holds it.
RECURSIVE ReleasesLive(_, _)
ReleasesLive(S, l) ==
    IF empty(S, l) THEN TRUE
    ELSE S.head[l] \in S.allocated /\ ReleasesLive(pop_front(S, l), l)

C29_State ==
    /\ allocated = UNION {Nodes(l) : l \in {x \in AllLists : alive[x]}}
    /\ Cardinality(allocated) = count["a"] + count["b"] + count[Tmp]
    /\ \A l \in AllLists : ~alive[l] => head[l] = Null /\ count[l] = 0
    /\ \A l \in Lists :
          alive[l] => /\ ReleasesLive(St(NoFail), l)
                      /\ clear(St(NoFail), l).allocated = allocated \ Nodes(l)
                      /\ dtor(St(NoFail), l).allocated = allocated \ Nodes(l)

C29_Step ==
    /\ \A l \in Lists :
          (res'.op \in {"clear", "dtor"} /\ res'.l = l)
          => /\ allocated' = allocated \ Nodes(l)
             /\ Nodes(l) \cap allocated' = {}
             /\ head'[l] = Null /\ count'[l] = 0
    /\ (allocated \ allocated') \cap
          UNION {Range(NodeSeqNext(l)) : l \in AllLists} = {}

C29_NodesReleasedExactlyOnce == []C29_State /\ [][C29_Step]_vars

\* a was destroyed after b had pushed its element into the third node: the
\* nodes of a are gone, the node of b is all that is allocated
C29_Witness ==
    /\ res.op = "dtor" /\ res.l = "a" /\ res.exc = "none"
    /\ ~alive["a"] /\ head["a"] = Null /\ count["a"] = 0
    /\ alive["b"] /\ NodeSeq("b") = <<3>>
    /\ allocated = {3}

\* ---- C30
\* C30: ownership is exclusive.  In every state reached by the operations on
\* several lists, copy construction, copy assignment, move construction, move
\* assignment and swap included, the rings of two distinct list objects share
\* no node, and the links of the nodes of a ring lead to nodes of that ring
\* only.
C30_ExclusiveOwnership ==
    /\ \A l \in AllLists : \A o \in AllLists \ {l} :
          Nodes(l) \cap Nodes(o) = {}
    /\ \A l \in AllLists : \A n \in Nodes(l) :
          next[n] \in Nodes(l) /\ prev[n] \in Nodes(l)

\* a copy assignment between two different lists has just given its target a
\* node of its own holding the value of the source's node
C30_Witness ==
    /\ res.op = "copy_assign" /\ res.v = 0 /\ res.exc = "none"
    /\ alive["a"] /\ alive["b"]
    /\ ValueSeq("a") = <<2>> /\ ValueSeq("b") = <<2>>
    /\ head["a"] # head["b"]
    /\ allocated = {head["a"], head["b"]}

\* ---- C31
\* C31 as stated: starting from an empty list, push_back(1), push_back(2),
\* push_back(3) gives size 3, front 1, back 3; then push_front(0) gives size
\* 4, front 0, back 3; then erase(begin()) gives size 3, front 2, back 3.
Observed(n, f, b) ==
    /\ size(St(NoFail), "a") = n
    /\ front(St(NoFail), "a").exc = "none" /\ front(St(NoFail), "a").val = f
    /\ back(St(NoFail), "a").exc = "none" /\ back(St(NoFail), "a").val = b

C31_ScenarioAsStated ==
    /\ (ref = <<1, 2, 3>> /\ res.op = "push_back") => Observed(3, 1, 3)
    /\ (ref = <<1, 2, 3, 0>> /\ res.op = "push_front") => Observed(4, 0, 3)
    /\ (ref = <<1, 2, 3, 0>> /\ res.op = "erase") => Observed(3, 2, 3)

\* C31 amended: starting from an empty list, push_back(1), push_back(2),
\* push_back(3) gives size 3, front 1, back 3; then push_front(0) gives size
\* 4, front 0, back 3; then erase(begin()) gives size 3, front 1, back 3, the
\* list being 1, 2, 3 again.  The same holds of any four values x, y, z, w:
\* front x, back z after the push_backs, front w after push_front(w), front x
\* and back z after erase(begin()).
C31_Scenario ==
    /\ (ref = <<1, 2, 3>> /\ res.op = "push_back") => Observed(3, 1, 3)
    /\ (ref = <<1, 2, 3, 0>> /\ res.op = "push_front") => Observed(4, 0, 3)
    /\ (ref = <<1, 2, 3, 0>> /\ res.op = "erase")
       => Observed(3, 1, 3) /\ ValueSeq("a") = <<1, 2, 3>>
    /\ (Len(ref) = 3 /\ res.op = "push_back")
       => Observed(3, ref[1], ref[3])
    /\ (Len(ref) = 4 /\ res.op = "push_front")
       => Observed(4, ref[4], ref[3])
    /\ (Len(ref) = 4 /\ res.op = "erase")
       => /\ res.exc = "none"
          /\ Observed(3, ref[1], ref[3])
          /\ ValueSeq("a") = SubSeq(ref, 1, 3)

\* erase(begin()) has just removed the 0 that push_front(0) put before 1, 2, 3
C31_Witness ==
    /\ ref = <<1, 2, 3, 0>>
    /\ res.op = "erase" /\ res.exc = "none"
    /\ count["a"] = 3
    /\ data[head["a"]] = 1

\* ---- C32
\* C32: in every state reached by the public operations, prev is the inverse
\* of next on the ring of every list: for every node n of the ring,
\* n.next.prev = n and n.prev.next = n; head.prev is the logical back node,
\* the last of the front-to-back sequence, and the predecessor of every later
\* node of the sequence is the node before it; a sole node has next and prev
\* equal to itself.
C32_PrevInvertsNext ==
    \A l \in AllLists :
       LET w == NodeSeq(l)
       IN  /\ \A n \in Nodes(l) : prev[next[n]] = n /\ next[prev[n]] = n
           /\ count[l] >= 1 => prev[head[l]] = w[count[l]]
           /\ \A i \in 2..count[l] : prev[w[i]] = w[i - 1]
           /\ count[l] = 1 => next[head[l]] = head[l] /\ prev[head[l]] = head[l]

\* a ring of two nodes left by pop_front on a ring of three
C32_Witness ==
    \E l \in Lists :
        /\ res.op = "pop_front" /\ res.exc = "none" /\ res.l = l
        /\ count[l] = 2
        /\ prev[head[l]] # head[l]
        /\ prev[prev[head[l]]] = head[l]
        /\ Cardinality(allocated) = 2 /\ 3 \in allocated

\* ---- C33
\* C33: for all pairs of reachable lists a and b (T = int, totally ordered),
\* no comparison throws and exactly one of a < b, a == b, a > b holds;
\* a > b equals b < a, a <= b equals (a < b or a == b), and a >= b equals
\* (a > b or a == b).  The answer a comparison step has just given agrees.
C33_Pair(l, o) ==
    LET S == St(NoFail)
        lt == operator_lt(S, l, o)
        eq == operator_eq(S, l, o)
        gt == operator_gt(S, l, o)
        le == operator_le(S, l, o)
        ge == operator_ge(S, l, o)
    IN  /\ \A r \in {lt, eq, gt, le, ge} : r.exc = "none"
        /\ Cardinality({r \in {<<"lt", lt.ret>>, <<"eq", eq.ret>>,
                               <<"gt", gt.ret>>} : r[2]}) = 1
        /\ gt.ret <=> operator_lt(S, o, l).ret
        /\ le.ret <=> (lt.ret \/ eq.ret)
        /\ ge.ret <=> (gt.ret \/ eq.ret)

C33_Trichotomy ==
    /\ \A l \in Lists, o \in Lists : (alive[l] /\ alive[o]) => C33_Pair(l, o)
    /\ res.op \in {"lt", "gt", "le", "ge"}
       => LET o == IF res.v = 1 THEN res.l ELSE Other(res.l)
              S == St(NoFail)
              lt == operator_lt(S, res.l, o).ret
              gt == operator_lt(S, o, res.l).ret
              eq == operator_eq(S, res.l, o).ret
          IN  /\ res.exc = "none"
              /\ (res.val = 1) <=> CASE res.op = "lt" -> lt
                                     [] res.op = "gt" -> gt
                                     [] res.op = "le" -> lt \/ eq
                                     [] res.op = "ge" -> gt \/ eq

\* a <= b has just been found true of two equal lists of two elements, for
\* which a < b is false
C33_Witness ==
    /\ res.op = "le" /\ res.v = 0 /\ res.val = 1 /\ res.exc = "none"
    /\ ValueSeq("a") = <<1, 2>> /\ ValueSeq("b") = <<1, 2>>
    /\ ~operator_lt(St(NoFail), "a", "b").ret
    /\ operator_eq(St(NoFail), "a", "b").ret

\* ---- C34
\* C34: copy construction never throws std::runtime_error (absent head, null
\* links, too many nodes, element count mismatch) when the source is a list
\* reached by the public operations.  In every state, following next from the
\* head of a live list visits count nodes, all allocated, with no null link,
\* and comes back to head after the last and not before; a copy of it, with
\* every allocation succeeding or one failing, throws no runtime_error.  No
\* copy construction or copy assignment step ends with one.
C34_Source(o) ==
    LET w == NodeSeq(o)
        n == count[o]
    IN  /\ (n >= 1) <=> (head[o] # Null)
        /\ \A i \in 1..n : /\ w[i] \in allocated
                           /\ next[w[i]] # Null /\ prev[w[i]] # Null
        /\ \A i \in 1..(n - 1) : next[w[i]] # head[o]
        /\ n >= 1 => next[w[n]] = head[o]
        /\ \A b \in FailAt :
              Room(St(b), n, b)
              => copy_ctor(St(b), Tmp, o).exc \in {"none", "bad_alloc"}
        /\ Room(St(NoFail), n, NoFail)
           => copy_ctor(St(NoFail), Tmp, o).exc = "none"

C34_State == \A o \in Lists : alive[o] => C34_Source(o)

C34_Step ==
    res'.op \in {"copy_ctor", "copy_assign"} => res'.exc # "runtime_error"

C34_CopyFindsNoCorruption == []C34_State /\ [][C34_Step]_vars

\* the copy constructor has just copied a list of two elements whose head is
\* not the first node allocated, with every node of the heap in use
C34_Witness ==
    /\ res.op = "copy_ctor" /\ res.exc = "none"
    /\ alive["a"] /\ alive["b"]
    /\ ValueSeq(res.l) = <<2, 1>>
    /\ ValueSeq(Other(res.l)) = <<2, 1>>
    /\ Cardinality(allocated) = 4

\* ---- C35
\* C35: if the allocation of the node fails inside push_back, push_front or
\* insert, std::bad_alloc reaches the caller and the list is exactly as
\* before the call: same head, count, nodes, values and links, nothing
\* allocated or released.  In every state each of the three, called when the
\* allocation fails, does so, at every position for insert.
C35_Failing ==
    LET S == St(0)
        Same(T) == /\ T.exc = "bad_alloc"
                   /\ T.head = head /\ T.count = count
                   /\ T.allocated = allocated
                   /\ T.data = data /\ T.next = next /\ T.prev = prev
    IN  \A v \in Values :
           /\ Same(push_back(S, "a", v))
           /\ Same(push_front(S, "a", v))
           /\ \A pos \in Positions("a") : Same(insert(S, "a", pos, v))

C35_Step ==
    (res'.op \in {"push_back", "push_front", "insert"} /\ res'.exc = "bad_alloc")
    => /\ SameStore(St(NoFail))
       /\ NodeSeqNext("a") = NodeSeq("a")
       /\ ValueSeqNext("a") = ValueSeq("a")

C35_FailedAllocationChangesNothing == []C35_Failing /\ [][C35_Step]_vars

\* an insert before the second of two elements has just failed with
\* std::bad_alloc
C35_Witness ==
    /\ res.op = "insert" /\ res.exc = "bad_alloc"
    /\ ValueSeq("a") = <<1, 2>>
    /\ res.pos = iterator(NodeSeq("a")[2], head["a"])
    /\ Cardinality(allocated) = 2

\* ---- C36
\* C36: decrementing an iterator that references the head node of a non-empty
\* list does not fail.  Every -- step on such an iterator, however it came to
\* the head node, throws nothing, reads no destroyed node and moves the
\* iterator to the logical back node, where dereferencing gives back(); on a
\* list of one element the iterator stays on the same node.  In every state
\* with an element, -- applied to begin() and the const_iterator -- applied
\* to cbegin() have that one outcome.
C36_Step ==
    LET S == St(NoFail)
        n == count["a"]
    IN  (/\ res'.op = "dec"
         /\ n >= 1 /\ it.node # Null /\ it.node = head["a"])
        => /\ res'.exc = "none" /\ ~res'.uaf
           /\ it'.node = NodeSeq("a")[n]
           /\ it'.node = prev[head["a"]]
           /\ \A o \in iterator_deref(it') :
                 o.exc = "none" /\ ~o.uaf /\ o.val = back(S, "a").val
           /\ n = 1 => it'.node = it.node

C36_AtBegin ==
    LET S == St(NoFail)
        h == head["a"]
    IN  count["a"] >= 1
        => /\ iterator_dec(begin(S, "a"))
                 = {Outcome(iterator(prev[h], h), "none", 0, FALSE)}
           /\ const_iterator_dec(cbegin(S, "a"))
                 = {Outcome(const_iterator(prev[h], h), "none", 0, FALSE)}
           /\ prev[h] = NodeSeq("a")[count["a"]]
           /\ count["a"] = 1 => prev[h] = h

C36_DecrementOfHeadIsBack == []C36_AtBegin /\ [][C36_Step]_vars

\* --it on it = begin() of the list 1, 2 has just moved the iterator to the
\* node of 2, the back
C36_Witness ==
    /\ res.op = "dec" /\ res.exc = "none" /\ ~res.uaf
    /\ res.pos = begin(St(NoFail), "a")
    /\ ValueSeq("a") = <<1, 2>>
    /\ it.node = prev[head["a"]] /\ it.node # head["a"]
    /\ data[it.node] = 2

\* ---- C37
\* C37: the iterator and the const_iterator behave identically.  Obtained at
\* the same place of the same list (begin()/cbegin() or end()/cend()) and
\* driven by the same dereference, increment and decrement steps, they
\* reference the same node (and hold the same head) after every step, read
\* the same value and throw on exactly the same steps, the same exception.
\* At every position of the list, and where the iterator stands, each
\* operator of the one has the outcomes of the operator of the other.
C37_SameOperators(i) ==
    LET c == const_iterator(i.node, i.head)
    IN  /\ iterator_deref(i) = const_iterator_deref(c)
        /\ iterator_inc(i) = const_iterator_inc(c)
        /\ iterator_dec(i) = const_iterator_dec(c)

C37_IteratorsAgree ==
    /\ itv.src \notin {"none", "wild"}
       => cit.node = it.node /\ cit.head = it.head
    /\ (res.op \in {"deref", "inc", "dec"} /\ ~res.uaf)
       => /\ res.ret = it
          /\ res.l = res.exc
          /\ res.v = res.val
    /\ \A i \in Positions("a") \cup {it} : C37_SameOperators(i)
    /\ begin(St(NoFail), "a") = cbegin(St(NoFail), "a")
    /\ end(St(NoFail), "a") = cend(St(NoFail), "a")

\* both iterators, obtained at the front of the list 1, 2 and incremented
\* once, have just been dereferenced: both read 2, on the second node
C37_Witness ==
    /\ res.op = "deref" /\ res.exc = "none" /\ ~res.uaf
    /\ res.l = "none" /\ res.val = 2 /\ res.v = 2
    /\ itv.src = "moved" /\ itv.mut = ""
    /\ ValueSeq("a") = <<1, 2>>
    /\ it.node = NodeSeq("a")[2] /\ cit.node = it.node

====
